---- MODULE Spec2Model ----
(***************************************************************************)
(* Offline-AI: the extractive summarizer (conversational_ai.py,            *)
(* simple_ai_chat.py), the multi-source answer compiler                    *)
(* (intelligent_limbor.py) and the web snippet extraction                  *)
(* (simple_ai_chat.py), as state machines over bounded inputs.             *)
(*                                                                         *)
(* A text is a sequence of pieces, each followed by one delimiter          *)
(* character ('.', '!' or '?'; a Pause by a run of 120 dots) and separated *)
(* from the next piece by one blank; a piece carries the length of its     *)
(* stripped text, the keywords it contains as substrings and whether it    *)
(* contains a digit.  lead and trail are the blanks before the first and   *)
(* after the last piece.                                                   *)
(***************************************************************************)
EXTENDS Integers, Sequences, FiniteSets, TLC

VARIABLES
    variant,        \* which summarizer is called: "conversational" | "simple"
    text,           \* the argument of summarize_text / create_summary
    summary,        \* what the call returned; label "none" before it returns
    edit,           \* a keyword to add to one sentence of the text, for comparing scores
    scores,         \* the local list of (sentence, score) pairs, before it is sorted
    selected,       \* the sentences handed to create_summary or to a scoring loop called on its own
    assistant,      \* whose answer compiler runs: "IntelligentLimbor" | "SimpleAI"
    query,          \* the argument of get_comprehensive_answer / search_and_answer
    pc,             \* position inside the answer compiler
    env,            \* what each transport answered for this query, once asked
    sources,        \* the local list `sources` of get_comprehensive_answer
    consulted,      \* the provider lookups called so far, in call order
    response,       \* the returned text, as a sequence of segments
    soup,           \* the result page search_google fetched and parsed
    snippets,       \* what extract_search_snippets returned for it
    bot,            \* the chat object: "ConversationalAI" | "SimpleAI"
    user_input,     \* what the user types, the same on every turn
    conversation_history,   \* self.conversation_history
    reply,          \* what the last turn returned
    is_active,      \* LamboSystemAI.is_active
    is_listening,   \* LamboSystemAI.is_listening
    voice_threads,  \* the threads started on voice_loop, each with its position in the loop
    toggling        \* the callers of toggle_voice (hotkey listener, menu), each with its position

sumVars == <<variant, text, summary, edit, scores, selected>>
ansVars == <<assistant, query, pc, env, sources, consulted, response>>
snipVars == <<soup, snippets>>
chatVars == <<bot, user_input, conversation_history, reply>>
voiceVars == <<is_active, is_listening, voice_threads, toggling>>
vars ==
    <<variant, text, summary, edit, scores, selected, assistant, query, pc, env, sources,
      consulted, response, soup, snippets, bot, user_input, conversation_history, reply,
      is_active, is_listening, voice_threads, toggling>>

\* Python's None, as a result that holds nothing
None == [type |-> "none"]

(***************************************************************************)
(* Bounds of the inputs.                                                   *)
(***************************************************************************)
MaxFree == 3
MaxPad == 9
MaxWs == 1

(***************************************************************************)
(* Generic sequence helpers.                                               *)
(***************************************************************************)
Take(s, k) == SubSeq(s, 1, IF k < Len(s) THEN k ELSE Len(s))

Max(a, b) == IF a >= b THEN a ELSE b

Min(a, b) == IF a <= b THEN a ELSE b

RECURSIVE Repeat(_, _)
Repeat(x, k) == IF k = 0 THEN <<>> ELSE <<x>> \o Repeat(x, k - 1)

\* the sequences over S of length at most k
SeqsUpTo(S, k) == UNION {[1..n -> S] : n \in 0..k}

(***************************************************************************)
(* Texts.                                                                  *)
(***************************************************************************)
Frag == [len |-> 5, kws |-> {}, digit |-> FALSE]
\* "Well" trailing off in a run of 120 dots
Pause == [len |-> 4, kws |-> {}, digit |-> FALSE]
Short == [len |-> 12, kws |-> {}, digit |-> FALSE]
Plain == [len |-> 40, kws |-> {}, digit |-> FALSE]
Rich == [len |-> 60, kws |-> {"important", "significant"}, digit |-> TRUE]
Long == [len |-> 250, kws |-> {"because"}, digit |-> FALSE]

PieceKinds == {Frag, Pause, Short, Plain, Rich, Long}
PadKinds == {Plain, Rich}

NoText == [lead |-> 0, pieces |-> <<>>, trail |-> 0]

Texts ==
    {[lead |-> l, pieces |-> p \o Repeat(k, m), trail |-> r] :
        l \in 0..MaxWs, r \in 0..MaxWs, p \in SeqsUpTo(PieceKinds, MaxFree),
        k \in PadKinds, m \in 0..MaxPad}

\* the run of delimiter characters that ends a piece
DelimLen(p) == IF p = Pause THEN 120 ELSE 1

RECURSIVE SumLen(_)
SumLen(ps) == IF ps = <<>> THEN 0 ELSE Head(ps).len + DelimLen(Head(ps)) + SumLen(Tail(ps))

\* len(text): the pieces with their delimiters, the blanks between them, lead and trail
TextLen(t) ==
    t.lead + SumLen(t.pieces) + (IF Len(t.pieces) > 0 THEN Len(t.pieces) - 1 ELSE 0) + t.trail

\* text.strip()
Strip(t) == [t EXCEPT !.lead = 0, !.trail = 0]

(***************************************************************************)
(* Segmentation: re.split(r'[.!?]+', text), strip, keep the pieces longer  *)
(* than the threshold.  A sentence remembers the piece it came from.       *)
(***************************************************************************)
\* stop is the '.', '!' or '?' the sentence ends with: none after the split
Sentence(ps, i) ==
    [piece |-> i, len |-> ps[i].len, kws |-> ps[i].kws, digit |-> ps[i].digit, stop |-> ""]

RECURSIVE SplitFrom(_, _, _)
SplitFrom(ps, i, minLen) ==
    IF i > Len(ps) THEN <<>>
    ELSE (IF ps[i].len > minLen THEN <<Sentence(ps, i)>> ELSE <<>>)
         \o SplitFrom(ps, i + 1, minLen)

split_into_sentences_from_ten(t) == SplitFrom(t.pieces, 1, 9)

split_into_sentences(t) == SplitFrom(t.pieces, 1, 10)

split_sentences(t) == SplitFrom(t.pieces, 1, 15)

(***************************************************************************)
(* list.sort(key=score, reverse=True): Python's sort is stable, also with  *)
(* reverse=True, so equal scores keep their input order.                   *)
(***************************************************************************)
RECURSIVE InsertDesc_latest_first(_, _)
InsertDesc_latest_first(sorted, x) ==
    IF sorted = <<>> THEN <<x>>
    ELSE IF Head(sorted).score > x.score
         THEN <<Head(sorted)>> \o InsertDesc_latest_first(Tail(sorted), x)
         ELSE <<x>> \o sorted

RECURSIVE InsertDesc(_, _)
InsertDesc(sorted, x) ==
    IF sorted = <<>> THEN <<x>>
    ELSE IF Head(sorted).score >= x.score
         THEN <<Head(sorted)>> \o InsertDesc(Tail(sorted), x)
         ELSE <<x>> \o sorted

RECURSIVE SortDesc(_)
SortDesc(s) ==
    IF s = <<>> THEN <<>>
    ELSE InsertDesc(SortDesc(SubSeq(s, 1, Len(s) - 1)), s[Len(s)])

DigitScore(s) == IF s.digit THEN 1 ELSE 0

(***************************************************************************)
(* ConversationalAI.extract_key_sentences.  i is the 0-based index.        *)
(***************************************************************************)
keywords ==
    {"important", "key", "main", "primary", "significant", "crucial", "essential",
     "major", "conclusion", "result", "therefore", "however", "because"}

PositionScore_last_first(i, n) ==
    IF i = n - 1 THEN 2
    ELSE IF i = 0 THEN 3
    ELSE IF 10 * i < 3 * n THEN 1
    ELSE 0

PositionScore(i, n) ==
    IF i = 0 THEN 3
    ELSE IF i = n - 1 THEN 2
    ELSE IF 10 * i < 3 * n THEN 1
    ELSE 0

LengthScore_from_fifty(len) ==
    IF 50 <= len /\ len < 200 THEN 2
    ELSE IF 20 < len /\ len < 300 THEN 1
    ELSE 0

LengthScore(len) ==
    IF 50 < len /\ len < 200 THEN 2
    ELSE IF 20 < len /\ len < 300 THEN 1
    ELSE 0

\* a keyword count that counts every word of the sentence that holds a keyword
RECURSIVE Occurrences(_)
Occurrences(words) ==
    IF words = <<>> THEN 0
    ELSE (IF Head(words) \in {"Important", "important", "keyboard", "Significant"}
          THEN 1 ELSE 0) + Occurrences(Tail(words))

KeywordScore_occurrences(s) == Occurrences(s.words)

\* a keyword count that would fall again as keywords are added
KeywordScore_parity(s) == Cardinality(s.kws \cap keywords) % 2

KeywordScore(s) == Cardinality(s.kws \cap keywords)

scored_sentences_undigited(sentences) ==
    [i \in 1..Len(sentences) |->
        [sentence |-> sentences[i],
         score |-> PositionScore(i - 1, Len(sentences)) + LengthScore(sentences[i].len)
                   + KeywordScore(sentences[i])]]

scored_sentences(sentences) ==
    [i \in 1..Len(sentences) |->
        [sentence |-> sentences[i],
         score |-> PositionScore(i - 1, Len(sentences)) + LengthScore(sentences[i].len)
                   + KeywordScore(sentences[i]) + DigitScore(sentences[i])]]

keep_count(n) ==
    IF n <= 5 THEN 2
    ELSE IF n <= 10 THEN 3
    ELSE Max(3, n \div 3)

extract_key_sentences_dropmax(sentences) ==
    LET ranked == SortDesc(scored_sentences(sentences))
        top == Take(ranked, Len(sentences) \div 3)
    IN  [i \in 1..Len(top) |-> top[i].sentence]

extract_key_sentences(sentences) ==
    LET ranked == SortDesc(scored_sentences(sentences))
        top == Take(ranked, keep_count(Len(sentences)))
    IN  [i \in 1..Len(top) |-> top[i].sentence]

(***************************************************************************)
(* What a summarizer returns: the label of the branch taken, the text it   *)
(* hands back (body), the sentences it lists (points), whether the         *)
(* "Key Points" header is there and whether the compression footnote is,   *)
(* the lines that print the points, and the two character counts the       *)
(* footnote states.                                                        *)
(***************************************************************************)
NoSummary ==
    [label |-> "none", body |-> NoText, points |-> <<>>, header |-> FALSE, footnote |-> FALSE,
     lines |-> <<>>, counts |-> <<>>]

Labelled(l, t) == [NoSummary EXCEPT !.label = l, !.body = t]

\* a printed line: its marker, the sentence, the mark it ends with, its length
Line(marker, sentence, stop, len) ==
    [marker |-> marker, sentence |-> sentence, stop |-> stop, len |-> len]

\* if not sentence.endswith(('.', '!', '?')): sentence += '.'
Terminated(sentence) ==
    IF sentence.stop = "" THEN [sentence EXCEPT !.stop = ".", !.len = @ + 1] ELSE sentence

\* summary_parts.append(f"(bullet) {sentence}") / summary_parts.append(sentence)
SummaryLine(sentence, bulleted) ==
    IF bulleted
    THEN Line("bullet", sentence, Terminated(sentence).stop, 2 + Terminated(sentence).len)
    ELSE Line("plain", sentence, Terminated(sentence).stop, Terminated(sentence).len)

RECURSIVE LinesLen(_)
LinesLen(lines) == IF lines = <<>> THEN 0 ELSE Head(lines).len + LinesLen(Tail(lines))

\* len(' '.join(summary_parts)): "**Key Points:**" has 15 characters
JoinedLen(header, lines) ==
    (IF header THEN 15 + 1 ELSE 0) + LinesLen(lines) + (Len(lines) - 1)

create_summary_always_footnoted(key_sentences, original_text) ==
    IF key_sentences = <<>> THEN Labelled("unable", NoText)
    ELSE LET lines == [i \in 1..Len(key_sentences) |->
                          SummaryLine(key_sentences[i], Len(key_sentences) > 1)]
         IN  [label |-> "summary", body |-> NoText, points |-> key_sentences,
              header |-> Len(key_sentences) > 1,
              footnote |-> TRUE,
              lines |-> lines,
              counts |-> <<TextLen(original_text), JoinedLen(Len(key_sentences) > 1, lines)>>]

\* ConversationalAI.create_summary(key_sentences, original_text)
create_summary(key_sentences, original_text) ==
    IF key_sentences = <<>> THEN Labelled("unable", NoText)
    ELSE LET lines == [i \in 1..Len(key_sentences) |->
                          SummaryLine(key_sentences[i], Len(key_sentences) > 1)]
         IN  [label |-> "summary", body |-> NoText, points |-> key_sentences,
              header |-> Len(key_sentences) > 1,
              footnote |-> TextLen(original_text) > 1000,
              lines |-> lines,
              counts |-> IF TextLen(original_text) > 1000
                         THEN <<TextLen(original_text),
                                JoinedLen(Len(key_sentences) > 1, lines)>>
                         ELSE <<>>]

\* a summarizer that would let the turns of the conversation so far widen its selection
summarize_text_remembering(t) ==
    LET stripped == Strip(t)
        sentences == split_into_sentences(stripped)
        ranked == SortDesc(scored_sentences(sentences))
        top == Take(ranked, keep_count(Len(sentences)) + Len(conversation_history) \div 4)
    IN  IF TextLen(stripped) < 200 THEN Labelled("brief", stripped)
        ELSE IF Len(sentences) <= 3 THEN Labelled("concise", stripped)
        ELSE create_summary([i \in 1..Len(top) |-> top[i].sentence], stripped)

summarize_text_low_floor(t) ==
    LET stripped == Strip(t)
        sentences == split_into_sentences(stripped)
    IN  IF TextLen(stripped) < 200 THEN Labelled("brief", stripped)
        ELSE IF Len(sentences) <= 1 THEN Labelled("concise", stripped)
        ELSE create_summary(extract_key_sentences(sentences), stripped)

summarize_text(t) ==
    LET stripped == Strip(t)
        sentences == split_into_sentences(stripped)
    IN  IF TextLen(stripped) < 200 THEN Labelled("brief", stripped)
        ELSE IF Len(sentences) <= 3 THEN Labelled("concise", stripped)
        ELSE create_summary(extract_key_sentences(sentences), stripped)

(***************************************************************************)
(* SimpleAI.select_key_sentences and SimpleAI.create_summary.              *)
(***************************************************************************)
important_words ==
    {"important", "key", "main", "primary", "essential", "crucial",
     "therefore", "however", "because", "result", "conclusion"}

SimplePositionScore(i, n) ==
    IF i = 0 THEN 3
    ELSE IF i = n - 1 THEN 2
    ELSE 0

SimpleLengthScore(len) == IF 30 <= len /\ len <= 150 THEN 2 ELSE 0

scored(sentences) ==
    [i \in 1..Len(sentences) |->
        [sentence |-> sentences[i],
         score |-> SimplePositionScore(i - 1, Len(sentences))
                   + SimpleLengthScore(sentences[i].len)
                   + Cardinality(sentences[i].kws \cap important_words)
                   + DigitScore(sentences[i])]]

num_to_take(n) == Min(3, Max(2, n \div 3))

select_key_sentences(sentences) ==
    IF Len(sentences) <= 3 THEN sentences
    ELSE LET ranked == SortDesc(scored(sentences))
             top == Take(ranked, num_to_take(Len(sentences)))
         IN  [i \in 1..Len(top) |-> top[i].sentence]

SimpleAI_create_summary(t) ==
    LET stripped == Strip(t)
        sentences == split_sentences(stripped)
        key_sentences == select_key_sentences(sentences)
    IN  IF TextLen(stripped) < 100 THEN Labelled("brief", stripped)
        ELSE IF Len(sentences) <= 2 THEN Labelled("concise", stripped)
        ELSE [label |-> "summary", body |-> NoText, points |-> key_sentences,
              header |-> Len(key_sentences) # 1, footnote |-> FALSE,
              lines |-> [i \in 1..Len(key_sentences) |->
                            IF Len(key_sentences) = 1
                            THEN Line("plain", key_sentences[i], key_sentences[i].stop,
                                      key_sentences[i].len)
                            ELSE Line("number", key_sentences[i], key_sentences[i].stop,
                                      3 + key_sentences[i].len)],
              counts |-> <<>>]

(***************************************************************************)
(* Queries: a sequence of words.  SubstringsOf lists the substrings the    *)
(* providers look for that a lower-case word contains ("explain" contains  *)
(* "ai"); an upper-case word contains none of them until it is lowered.    *)
(***************************************************************************)
Words == {"NPU", "explain", "python", "language", "ML", "news", " "}

\* further words, for the built-in lookup on its own
TopicWords == {"programming", "Artificial Intelligence", "Machine Learning", "AI", "HTML", "Python"}

Lower(w) ==
    CASE w = "NPU" -> "npu"
      [] w = "ML" -> "ml"
      [] w = "Artificial Intelligence" -> "artificial intelligence"
      [] w = "Machine Learning" -> "machine learning"
      [] w = "AI" -> "ai"
      [] w = "HTML" -> "html"
      [] w = "Python" -> "python"
      [] OTHER -> w

SubstringsOf(w) ==
    CASE w = "npu" -> {"npu"}
      [] w = "explain" -> {"explain", "ai"}
      [] w = "python" -> {"python"}
      [] w = "language" -> {"language"}
      [] w = "ml" -> {"ml"}
      [] w = "news" -> {"news"}
      [] w = "programming" -> {"programming"}
      [] w = "artificial intelligence" -> {"artificial intelligence"}
      [] w = "machine learning" -> {"machine learning"}
      [] w = "ai" -> {"ai"}
      [] w = "html" -> {"html", "ml"}
      [] OTHER -> {}

\* query.lower()
lower(q) == [i \in DOMAIN q |-> Lower(q[i])]

\* sub in q
In(sub, q) == \E i \in DOMAIN q : sub \in SubstringsOf(q[i])

(***************************************************************************)
(* IntelligentLimbor.get_built_in_knowledge.  A dict is its keys in        *)
(* insertion order.                                                        *)
(***************************************************************************)
Dict(topic, keys) == [type |-> "dict", topic |-> topic, keys |-> keys]

Raise == [type |-> "raise"]

get_built_in_knowledge_unlowered(qry) ==
    IF In("npu", qry)
    THEN Dict("npu", <<"definition", "details", "applications", "advantages">>)
    ELSE IF In("artificial intelligence", qry) \/ In("ai", qry)
    THEN Dict("ai", <<"definition", "types", "applications", "technologies", "current_state">>)
    ELSE IF In("python", qry) /\ (In("programming", qry) \/ In("language", qry))
    THEN Dict("python", <<"definition", "features", "uses", "advantages", "learning_path">>)
    ELSE IF In("machine learning", qry) \/ In("ml", qry)
    THEN Dict("ml", <<"definition", "types", "algorithms", "applications", "process">>)
    ELSE None

get_built_in_knowledge_python_alone(qry) ==
    LET q == lower(qry)
    IN  IF In("npu", q)
        THEN Dict("npu", <<"definition", "details", "applications", "advantages">>)
        ELSE IF In("artificial intelligence", q) \/ In("ai", q)
        THEN Dict("ai", <<"definition", "types", "applications", "technologies", "current_state">>)
        ELSE IF In("python", q)
        THEN Dict("python", <<"definition", "features", "uses", "advantages", "learning_path">>)
        ELSE IF In("machine learning", q) \/ In("ml", q)
        THEN Dict("ml", <<"definition", "types", "algorithms", "applications", "process">>)
        ELSE None

get_built_in_knowledge(qry) ==
    LET q == lower(qry)
    IN  IF In("npu", q)
        THEN Dict("npu", <<"definition", "details", "applications", "advantages">>)
        ELSE IF In("artificial intelligence", q) \/ In("ai", q)
        THEN Dict("ai", <<"definition", "types", "applications", "technologies", "current_state">>)
        ELSE IF In("python", q) /\ (In("programming", q) \/ In("language", q))
        THEN Dict("python", <<"definition", "features", "uses", "advantages", "learning_path">>)
        ELSE IF In("machine learning", q) \/ In("ml", q)
        THEN Dict("ml", <<"definition", "types", "algorithms", "applications", "process">>)
        ELSE None

(***************************************************************************)
(* IntelligentLimbor.search_wikipedia_detailed.  The transport answers     *)
(* w = [status, search, pages]: search is what session.get(search_url)     *)
(* gave ("timeout": it raised; "not_json": .json() raises; "no_query": a   *)
(* JSON object without 'query'; "no_title": hits without a 'title';        *)
(* "hits": a list of hits), pages what the content request of each hit     *)
(* gave ("unfetched" for a hit the loop never reaches).  The status is     *)
(* never read.                                                             *)
(***************************************************************************)
ShortExtract == 120
LongExtract == 900

\* an extract cut to its first `kept` characters, followed by `dots` dots
Cut(kept, dots) == [kept |-> kept, dots |-> dots]

\* extract[:800] + "..." if len(extract) > 800 else extract
detailed_content(extract) == IF extract > 800 THEN Cut(800, 3) ELSE Cut(extract, 0)

\* ConversationalAI.search_wikipedia: if len(extract) > 500: extract = extract[:497] + "..."
conversational_extract(extract) == IF extract > 500 THEN Cut(497, 3) ELSE Cut(extract, 0)

\* SimpleAI.search_wikipedia: if len(extract) > 400: extract = extract[:397] + "..."
simple_extract(extract) == IF extract > 400 THEN Cut(397, 3) ELSE Cut(extract, 0)

\* smart_search_test.search_wikipedia: if len(extract) > 300: extract = extract[:297] + "..."
smart_extract(extract) == IF extract > 300 THEN Cut(297, 3) ELSE Cut(extract, 0)

WikiDict(hit, extract) ==
    [type |-> "dict", topic |-> "wikipedia", keys |-> <<"title", "content", "url">>,
     hit |-> hit, extract |-> extract,
     content |-> detailed_content(extract).kept + detailed_content(extract).dots]

RECURSIVE FirstExtract(_, _)
FirstExtract(pages, i) ==
    IF i > Len(pages) THEN None
    ELSE CASE pages[i] \in {"timeout", "not_json"} -> Raise
           [] pages[i] = "short" -> WikiDict(i, ShortExtract)
           [] pages[i] = "long" -> WikiDict(i, LongExtract)
           [] OTHER -> FirstExtract(pages, i + 1)

\* the body of the try block
WikipediaTry(w) ==
    CASE w.search \in {"timeout", "not_json", "no_title"} -> Raise
      [] w.search = "no_query" -> None
      [] OTHER -> FirstExtract(w.pages, 1)

\* except Exception: return None
Except(outcome) == IF outcome = Raise THEN None ELSE outcome

search_wikipedia_detailed(w) == Except(WikipediaTry(w))

(***************************************************************************)
(* IntelligentLimbor.search_duckduckgo_detailed and search_news.  A page   *)
(* is the sequence of its div.result elements.                             *)
(***************************************************************************)
RECURSIVE Results(_, _)
Results(elements, i) ==
    IF i > Len(elements) THEN <<>>
    ELSE (IF elements[i].title /\ elements[i].snippet_elem /\ elements[i].snippet > 30
          THEN <<[title |-> i, snippet |-> elements[i].snippet, url |-> i]>>
          ELSE <<>>)
         \o Results(elements, i + 1)

List(items) == [type |-> "list", items |-> items]

DuckDuckGoTry(d) ==
    IF d.page = "timeout" THEN Raise
    ELSE LET results == Results(Take(d.elements, 3), 1)
         IN  IF results # <<>> THEN List(results) ELSE None

search_duckduckgo_detailed(d) == Except(DuckDuckGoTry(d))

RECURSIVE NewsResults(_, _)
NewsResults(elements, i) ==
    IF i > Len(elements) THEN <<>>
    ELSE (IF elements[i].title /\ elements[i].newsy THEN <<[title |-> i]>> ELSE <<>>)
         \o NewsResults(elements, i + 1)

NewsTry(d) ==
    IF d.page = "timeout" THEN Raise
    ELSE LET news_results == NewsResults(Take(d.elements, 2), 1)
         IN  IF news_results # <<>> THEN List(news_results) ELSE None

search_news(d) == Except(NewsTry(d))

NewsWords == {"news", "latest", "current", "today", "recent"}

IsNewsQuery(qry) == \E word \in NewsWords : In(word, lower(qry))

(***************************************************************************)
(* SimpleAI.search_google.  The text of a page element is a sequence of    *)
(* words; one text is a substring of another when its words are a run of   *)
(* the other's words.  A word is 16 characters wide ("essay": 300), and    *)
(* words are joined by one blank.                                          *)
(***************************************************************************)
LowerWord(w) ==
    CASE w = "Alpha" -> "alpha"
      [] w = "Cookies" -> "cookies"
      [] OTHER -> w

\* text.lower()
lower_text(t) == [i \in DOMAIN t |-> LowerWord(t[i])]

WordLen(w) == IF w = "essay" THEN 300 ELSE 16

RECURSIVE WordsLen(_)
WordsLen(t) == IF t = <<>> THEN 0 ELSE WordLen(Head(t)) + WordsLen(Tail(t))

\* len(text)
SnippetLen(t) == WordsLen(t) + (IF Len(t) > 0 THEN Len(t) - 1 ELSE 0)

\* a in b
SubstringOf(a, b) ==
    \E k \in 0..(Len(b) - Len(a)) : \A i \in 1..Len(a) : a[i] = b[k + i]

\* any(skip in text.lower() for skip in [...])
Skipped(t, skips) == \E i \in DOMAIN t : LowerWord(t[i]) \in skips

NoSoup == [page |-> "none", direct |-> <<>>, by_selector |-> <<>>]

TextResult(t) == [type |-> "text", items |-> <<t>>]

\* SimpleAI.extract_direct_answer: soup.direct holds the texts the answer selectors match
RECURSIVE FirstDirect(_, _)
FirstDirect(texts, i) ==
    IF i > Len(texts) THEN None
    ELSE IF /\ SnippetLen(texts[i]) > 20 /\ SnippetLen(texts[i]) < 500
            /\ ~Skipped(texts[i], {"sign in", "cookies", "privacy", "javascript"})
         THEN TextResult(texts[i])
         ELSE FirstDirect(texts, i + 1)

extract_direct_answer(page) == FirstDirect(page.direct, 1)

\* the texts of one selector's first 5 elements that pass the length and skip filters
RECURSIVE Useful(_, _)
Useful(texts, i) ==
    IF i > Len(texts) THEN <<>>
    ELSE (IF /\ SnippetLen(texts[i]) > 30 /\ SnippetLen(texts[i]) < 300
             /\ ~Skipped(texts[i], {"sign in", "cookies", "privacy", "javascript",
                                    "advertisement"})
          THEN <<texts[i]>> ELSE <<>>)
         \o Useful(texts, i + 1)

\* for selector in result_selectors: for element in soup.select(selector)[:5]
RECURSIVE Candidates(_, _)
Candidates(page, sel) ==
    IF sel > Len(page.by_selector) THEN <<>>
    ELSE Useful(Take(page.by_selector[sel], 5), 1) \o Candidates(page, sel + 1)

RECURSIVE UniqueCased(_, _)
UniqueCased(cands, unique_snippets) ==
    IF cands = <<>> THEN unique_snippets
    ELSE UniqueCased(Tail(cands),
            IF \E k \in DOMAIN unique_snippets : SubstringOf(Head(cands), unique_snippets[k])
            THEN unique_snippets ELSE Append(unique_snippets, Head(cands)))

\* if not any(snippet.lower() in existing.lower() for existing in unique_snippets)
RECURSIVE Unique(_, _)
Unique(cands, unique_snippets) ==
    IF cands = <<>> THEN unique_snippets
    ELSE Unique(Tail(cands),
            IF \E k \in DOMAIN unique_snippets :
                   SubstringOf(lower_text(Head(cands)), lower_text(unique_snippets[k]))
            THEN unique_snippets ELSE Append(unique_snippets, Head(cands)))

SnippetList(items) == [type |-> "snippets", items |-> items]

extract_search_snippets_uncapped(page) ==
    LET unique_snippets == Unique(Candidates(page, 1), <<>>)
    IN  IF unique_snippets # <<>> THEN SnippetList(unique_snippets) ELSE None

extract_search_snippets_cased(page) ==
    LET unique_snippets == UniqueCased(Candidates(page, 1), <<>>)
    IN  IF unique_snippets # <<>> THEN SnippetList(Take(unique_snippets, 3)) ELSE None

extract_search_snippets(page) ==
    LET unique_snippets == Unique(Candidates(page, 1), <<>>)
    IN  IF unique_snippets # <<>> THEN SnippetList(Take(unique_snippets, 3)) ELSE None

GoogleTry(page) ==
    IF page.page = "timeout" THEN Raise
    ELSE IF extract_direct_answer(page) # None THEN extract_direct_answer(page)
    ELSE extract_search_snippets(page)

search_google(page) == Except(GoogleTry(page))

(***************************************************************************)
(* SimpleAI.search_wikipedia: the summary endpoint for the query, then the *)
(* search endpoint and the summary of its first hit.  The status code is   *)
(* read on the summary responses only.                                     *)
(***************************************************************************)
Extract(n) ==
    [type |-> "text", extract |-> n, len |-> simple_extract(n).kept + simple_extract(n).dots]

\* if response.status_code == 200: data = response.json(); if 'extract' in data ...
SummaryTry(p) ==
    IF p.body = "timeout" THEN Raise
    ELSE IF p.status = 200
    THEN CASE p.body = "not_json" -> Raise
           [] p.body = "short" -> Extract(ShortExtract)
           [] p.body = "long" -> Extract(LongExtract)
           [] OTHER -> None
    ELSE None

SimpleWikipediaTry(r) ==
    IF SummaryTry(r.first) # None THEN SummaryTry(r.first)
    ELSE CASE r.search \in {"timeout", "not_json", "no_title"} -> Raise
           [] r.search = "hit" -> SummaryTry(r.second)
           [] OTHER -> None

SimpleAI_search_wikipedia(r) == Except(SimpleWikipediaTry(r))

(***************************************************************************)
(* SimpleAI.search_and_answer, after both lookups returned.                *)
(***************************************************************************)
\* "**Answer to: {question}**"
AnswerTo(question) == [seg |-> "answer_to", about |-> question]

\* "I searched for information about '{question}' but couldn't find clear results. ..."
NoClearResults(question) ==
    [seg |-> "no_clear_results", about |-> question, advice |-> "rephrase or be more specific"]

search_and_answer(question, google_result, wiki_result) ==
    <<AnswerTo(question)>>
    \o (IF wiki_result # None THEN <<[seg |-> "from_wikipedia", text |-> wiki_result]>> ELSE <<>>)
    \o (IF google_result # None THEN <<[seg |-> "from_web_search", text |-> google_result]>> ELSE <<>>)
    \o (IF google_result = None /\ wiki_result = None THEN <<NoClearResults(question)>> ELSE <<>>)
    \o <<[seg |-> "search_completed_at"]>>

(***************************************************************************)
(* IntelligentLimbor.compile_comprehensive_response.  The returned text is *)
(* the sequence of its segments; src is the position in `sources` of the   *)
(* source a segment prints (0: none), n a number the segment prints.       *)
(***************************************************************************)
Seg(kind, src, key, n) ==
    [seg |-> kind, src |-> src, key |-> key, n |-> n, about |-> <<>>]

NotFound_unnamed(qry) ==
    [seg |-> "could_not_find", about |-> <<"it">>, advice |-> "rephrase or be more specific"]

\* "I couldn't find comprehensive information about '{query}'. Try rephrasing ..."
NotFound(qry) ==
    [seg |-> "could_not_find", about |-> qry, advice |-> "rephrase or be more specific"]

\* "{self.name}'s Research Report: {query}"
Title(qry) == [seg |-> "report_title", src |-> 0, key |-> "", n |-> 0, about |-> qry]

RECURSIVE OtherFields(_, _)
OtherFields(keys, i) ==
    IF i > Len(keys) THEN <<>>
    ELSE (IF keys[i] # "definition" THEN <<Seg("field", 1, keys[i], 0)>> ELSE <<>>)
         \o OtherFields(keys, i + 1)

InKeys(k, data) == \E i \in DOMAIN data.keys : data.keys[i] = k

MainAnswer(data) ==
    IF data.type = "dict"
    THEN (IF InKeys("definition", data) THEN <<Seg("definition", 1, data.topic, 0)>> ELSE <<>>)
         \o OtherFields(data.keys, 1)
    ELSE <<Seg("text", 1, "", 0)>>

SourceDetails(data, at) ==
    IF data.type = "dict"
    THEN (IF InKeys("title", data) THEN <<Seg("detail", at, "title", 0)>> ELSE <<>>)
         \o (IF InKeys("content", data) THEN <<Seg("detail", at, "content", 0)>> ELSE <<>>)
         \o (IF InKeys("url", data) THEN <<Seg("detail", at, "url", 0)>> ELSE <<>>)
    ELSE IF data.type = "list"
    THEN [k \in 1..Len(Take(data.items, 3)) |-> Seg("item", at, "", k)]
    ELSE <<Seg("text", at, "", 0)>>

\* for i, (source_name, source_data) in enumerate(sources[1:], 1)
RECURSIVE AdditionalFrom(_, _)
AdditionalFrom(srcs, at) ==
    IF at > Len(srcs) THEN <<>>
    ELSE <<Seg("source", at, srcs[at][1], at - 1)>> \o SourceDetails(srcs[at][2], at)
         \o AdditionalFrom(srcs, at + 1)

AdditionalSources_all(srcs) == AdditionalFrom(srcs, 1)

AdditionalSources(srcs) == AdditionalFrom(srcs, 2)

compile_comprehensive_response_blank(qry, srcs) ==
    IF srcs = <<>> THEN <<>>
    ELSE <<Title(qry), Seg("rule", 0, "", 0), Seg("summary_label", 0, "", 0)>>
         \o MainAnswer(srcs[1][2]) \o <<Seg("rule", 0, "", 0)>>
         \o <<Seg("completed_at", 0, "", 0), Seg("sources_consulted", 0, "", Len(srcs))>>

compile_comprehensive_response(qry, srcs) ==
    IF srcs = <<>> THEN <<NotFound(qry)>>
    ELSE <<Title(qry), Seg("rule", 0, "", 0), Seg("summary_label", 0, "", 0)>>
         \o MainAnswer(srcs[1][2])
         \o <<Seg("rule", 0, "", 0)>>
         \o (IF Len(srcs) > 1
             THEN <<Seg("additional_label", 0, "", 0)>> \o AdditionalSources(srcs)
             ELSE <<>>)
         \o <<Seg("rule", 0, "", 0), Seg("completed_at", 0, "", 0),
              Seg("sources_consulted", 0, "", Len(srcs))>>

(***************************************************************************)
(* The parts of the state a specification does not use stay idle.          *)
(***************************************************************************)
Unasked == [page |-> "unasked"]

NoEnv ==
    [wiki |-> Unasked, ddg |-> Unasked, news |-> Unasked, google |-> Unasked,
     summary_api |-> Unasked]

NoEdit == [at |-> 0, keyword |-> "", grow |-> 0]

IdleSummarizer ==
    /\ variant = "idle" /\ text = NoText /\ summary = NoSummary
    /\ edit = NoEdit /\ scores = <<>> /\ selected = <<>>

IdleAnswer ==
    /\ assistant = "idle" /\ query = <<>> /\ pc = "idle" /\ env = NoEnv
    /\ sources = <<>> /\ consulted = <<>> /\ response = <<>>

Pending == [type |-> "pending"]

IdleSnippets == soup = NoSoup /\ snippets = Pending

NoInput == [tokens |-> <<>>, hash |-> 0]

IdleChat ==
    /\ bot = "idle" /\ user_input = NoInput
    /\ conversation_history = <<>> /\ reply = Pending

IdleVoice ==
    /\ is_active = FALSE /\ is_listening = FALSE
    /\ voice_threads = <<>> /\ toggling = <<>>

(***************************************************************************)
(* What the transports may answer.                                         *)
(***************************************************************************)
MaxWords == 2
MaxHits == 2

Statuses == {200, 503}

Queries == SeqsUpTo(Words, MaxWords)

PageOutcomes == {"timeout", "not_json", "no_extract", "short", "long"}

\* a hit is fetched exactly when every hit before it had no extract
FetchedInOrder(pages) ==
    \A i \in 1..Len(pages) :
        (pages[i] = "unfetched") <=> (\E j \in 1..(i - 1) : pages[j] # "no_extract")

WikiAnswers ==
    {[status |-> 200, page |-> "asked", search |-> "timeout", pages |-> <<>>]}
    \cup {[status |-> st, page |-> "asked", search |-> se, pages |-> <<>>] :
            st \in Statuses, se \in {"not_json", "no_query", "no_title"}}
    \cup {[status |-> st, page |-> "asked", search |-> "hits", pages |-> pg] :
            st \in Statuses,
            pg \in {p \in SeqsUpTo(PageOutcomes \cup {"unfetched"}, MaxHits) : FetchedInOrder(p)}}

FullElem == [title |-> TRUE, snippet_elem |-> TRUE, snippet |-> 80, newsy |-> TRUE]
ShortElem == [title |-> TRUE, snippet_elem |-> TRUE, snippet |-> 20, newsy |-> FALSE]
BareElem == [title |-> FALSE, snippet_elem |-> TRUE, snippet |-> 80, newsy |-> FALSE]

ResultPages ==
    {<<>>, <<ShortElem, BareElem>>, <<ShortElem, FullElem, BareElem, FullElem>>,
     <<FullElem, FullElem, FullElem, FullElem>>}

PageAnswers ==
    {[status |-> 200, page |-> "timeout", elements |-> <<>>]}
    \cup {[status |-> st, page |-> "html", elements |-> el] : st \in Statuses, el \in ResultPages}

\* the texts of the elements of a Google result page
AB == <<"alpha", "beta">>
ABcaps == <<"Alpha", "beta">>
ABA == <<"alpha", "beta", "alpha">>
BA == <<"beta", "alpha">>
BB == <<"beta", "beta">>
A == <<"alpha">>
CookieB == <<"Cookies", "beta">>
Essay == <<"essay">>

SnippetTexts == {AB, ABcaps, ABA, BA, BB, A, CookieB, Essay}

Page(first, fourth) ==
    [page |-> "html", direct |-> <<>>, by_selector |-> <<first, <<>>, <<>>, fourth, <<>>>>]

GooglePages ==
    {[page |-> "timeout", direct |-> <<>>, by_selector |-> <<>>],
     Page(<<>>, <<>>), Page(<<A, CookieB>>, <<Essay>>), Page(<<AB>>, <<ABA, AB>>),
     [page |-> "html", direct |-> <<CookieB, ABA>>,
      by_selector |-> <<<<BB>>, <<>>, <<>>, <<>>, <<>>>>]}

SummaryReplies ==
    {[status |-> 200, body |-> "timeout"]}
    \cup {[status |-> st, body |-> b] :
            st \in Statuses, b \in {"not_json", "no_extract", "short", "long"}}

NotFetched == [status |-> 0, body |-> "unfetched"]

\* a request is sent exactly when the code before it neither returned nor raised
SimpleWikiAnswers ==
    {r \in [first : SummaryReplies,
            search : {"timeout", "not_json", "no_title", "no_hits", "hit", "unfetched"},
            second : SummaryReplies \cup {NotFetched}] :
        /\ (r.search = "unfetched") <=> (SummaryTry(r.first) # None)
        /\ (r.second = NotFetched) <=> (r.search # "hit")}

(***************************************************************************)
(* SpecAnswer: one question put to an assistant.  For IntelligentLimbor,   *)
(* get_comprehensive_answer: one action per provider consulted and one for *)
(* the compilation.  For SimpleAI, search_and_answer.                      *)
(***************************************************************************)
InitAnswer ==
    /\ assistant \in {"IntelligentLimbor", "SimpleAI"}
    /\ query \in Queries
    /\ pc = IF assistant = "IntelligentLimbor" THEN "built_in" ELSE "search"
    /\ env = NoEnv
    /\ sources = <<>> /\ consulted = <<>> /\ response = <<>>
    /\ IdleSummarizer /\ IdleSnippets /\ IdleChat
    /\ IdleVoice

\* if result: sources.append((name, result))
AppendFoundFirst(srcs, name, result) ==
    IF result = None THEN srcs ELSE <<<<name, result>>>> \o srcs

AppendFound(srcs, name, result) ==
    IF result = None THEN srcs ELSE Append(srcs, <<name, result>>)

\* a lookup that raises ends get_comprehensive_answer with the exception
Consult(name, result, next) ==
    /\ consulted' = Append(consulted, [provider |-> name, gave |-> result])
    /\ IF result = Raise
       THEN pc' = "raised" /\ UNCHANGED sources
       ELSE pc' = next /\ sources' = AppendFound(sources, name, result)

BuiltInKnowledge ==
    /\ pc = "built_in"
    /\ Consult("Built-in Knowledge", get_built_in_knowledge(query), "wikipedia")
    /\ UNCHANGED <<assistant, query, env, response, sumVars, snipVars, chatVars, voiceVars>>

Wikipedia ==
    /\ pc = "wikipedia"
    /\ \E w \in WikiAnswers :
        /\ env' = [env EXCEPT !.wiki = w]
        /\ Consult("Wikipedia", search_wikipedia_detailed(w), "web")
    /\ UNCHANGED <<assistant, query, response, sumVars, snipVars, chatVars, voiceVars>>

\* search_multiple_sources: DuckDuckGo, then the news search for a news query
MultipleSources ==
    /\ pc = "web"
    /\ \E d \in PageAnswers :
        LET ddg_result == search_duckduckgo_detailed(d)
            asked == Append(consulted, [provider |-> "DuckDuckGo Search", gave |-> ddg_result])
        IN  IF ddg_result = Raise
            THEN /\ pc' = "raised" /\ consulted' = asked
                 /\ env' = [env EXCEPT !.ddg = d]
                 /\ UNCHANGED sources
            ELSE IF IsNewsQuery(query)
            THEN \E nw \in PageAnswers :
                    /\ env' = [env EXCEPT !.ddg = d, !.news = nw]
                    /\ consulted' = Append(asked, [provider |-> "News Sources",
                                                   gave |-> search_news(nw)])
                    /\ sources' = AppendFound(
                                      AppendFound(sources, "DuckDuckGo Search", ddg_result),
                                      "News Sources", search_news(nw))
                    /\ pc' = "compile"
            ELSE /\ env' = [env EXCEPT !.ddg = d]
                 /\ consulted' = asked
                 /\ sources' = AppendFound(sources, "DuckDuckGo Search", ddg_result)
                 /\ pc' = "compile"
    /\ UNCHANGED <<assistant, query, response, sumVars, snipVars, chatVars, voiceVars>>

Compile ==
    /\ pc = "compile"
    /\ response' = compile_comprehensive_response(query, sources)
    /\ pc' = "done"
    /\ UNCHANGED <<assistant, query, env, sources, consulted, sumVars, snipVars, chatVars, voiceVars>>

\* try: google_result = ...; wiki_result = ...; compile; neither lookup can raise
SearchAndAnswer ==
    /\ pc = "search"
    /\ \E g \in GooglePages : \E w \in SimpleWikiAnswers :
        LET google_result == search_google(g)
            wiki_result == SimpleAI_search_wikipedia(w)
        IN  /\ env' = [env EXCEPT !.google = g, !.summary_api = w]
            /\ consulted' = <<[provider |-> "Google", gave |-> google_result],
                              [provider |-> "Wikipedia", gave |-> wiki_result]>>
            /\ response' = search_and_answer(query, google_result, wiki_result)
    /\ pc' = "done"
    /\ UNCHANGED <<assistant, query, sources, sumVars, snipVars, chatVars, voiceVars>>

NextAnswer == BuiltInKnowledge \/ Wikipedia \/ MultipleSources \/ Compile \/ SearchAndAnswer

SpecAnswer == InitAnswer /\ [][NextAnswer]_vars

(***************************************************************************)
(* SpecSnippets: one call of SimpleAI.extract_search_snippets on a result  *)
(* page whose elements match the selectors 'div.BVG0Nb' and 'div.s3v9rd'.  *)
(***************************************************************************)
MaxElems == 4

InitSnippets ==
    /\ \E n \in 0..MaxElems : \E c \in [1..n -> SnippetTexts] : \E k \in 0..n :
           soup = Page(SubSeq(c, 1, k), SubSeq(c, k + 1, n))
    /\ snippets = Pending
    /\ IdleSummarizer /\ IdleAnswer /\ IdleChat
    /\ IdleVoice

ExtractSearchSnippets ==
    /\ soup.page = "html" /\ snippets = Pending
    /\ snippets' = extract_search_snippets(soup)
    /\ UNCHANGED <<soup, sumVars, ansVars, chatVars, voiceVars>>

NextSnippets == ExtractSearchSnippets

SpecSnippets == InitSnippets /\ [][NextSnippets]_vars

(***************************************************************************)
(* The chat routers: ConversationalAI.get_response and SimpleAI.chat.      *)
(* What the user types is a sequence of tokens joined by one blank:        *)
(*   KwThis "Summarize this:", KwTldr "tldr:", KwSummaryOf "Summary of:",  *)
(*   KwSummarize "Summarize:", Hello "Hello,", Rain "It rained.",          *)
(*   Body: six sentences about a river, 383 characters,                    *)
(*   BodyPython: Body and " We wrote the report in python.",               *)
(*   BodySummary: Body and " In summary, the farms depend on the spring    *)
(*   floods of the river."                                                 *)
(* Contains lists the router words a token contains once lowered ("this"   *)
(* contains "hi").                                                         *)
(***************************************************************************)
MaxTokens == 3
MaxTurns == 11

Tokens ==
    {"KwThis", "KwTldr", "KwSummaryOf", "KwSummarize", "Hello", "Rain", "Body", "BodyPython",
     "BodySummary"}

TokenLen(t) ==
    CASE t = "KwThis" -> 15
      [] t = "KwTldr" -> 5
      [] t = "KwSummaryOf" -> 11
      [] t = "KwSummarize" -> 10
      [] t = "Hello" -> 6
      [] t = "Rain" -> 10
      [] t = "Body" -> 383
      [] t = "BodyPython" -> 414
      [] t = "BodySummary" -> 447

Contains(t) ==
    CASE t = "KwThis" -> {"summarize", "hi"}
      [] t = "KwTldr" -> {"tldr"}
      [] t = "KwSummaryOf" -> {"summary"}
      [] t = "KwSummarize" -> {"summarize"}
      [] t = "Hello" -> {"hello"}
      [] t = "BodyPython" -> {"python"}
      [] t = "BodySummary" -> {"summary"}
      [] OTHER -> {}

\* any(word in user_lower for word in words)
AnyIn(words, tokens) == \E i \in DOMAIN tokens : Contains(tokens[i]) \cap words # {}

\* len of the tokens from i on, joined by blanks
RECURSIVE JoinLen(_, _)
JoinLen(tokens, i) ==
    IF i > Len(tokens) THEN 0
    ELSE TokenLen(tokens[i]) + (IF i < Len(tokens) THEN 1 + JoinLen(tokens, i + 1) ELSE 0)

(***************************************************************************)
(* re.search(pattern, request, re.IGNORECASE | re.DOTALL): Rest is the     *)
(* number of characters of the token that follow the match of the pattern  *)
(* and its ':?\s*' inside the token, -1 when the token has no match.       *)
(***************************************************************************)
ConvRest(pattern, t) ==
    CASE pattern = "summarize this" /\ t = "KwThis" -> 0
      [] pattern = "summary of" /\ t = "KwSummaryOf" -> 0
      [] pattern = "tldr" /\ t = "KwTldr" -> 0
      [] OTHER -> -1

SimpleRest(pattern, t) ==
    CASE pattern = "summarize" /\ t = "KwThis" -> 5
      [] pattern = "summarize" /\ t = "KwSummarize" -> 0
      [] pattern = "summary" /\ t = "KwSummaryOf" -> 3
      [] pattern = "summary" /\ t = "BodySummary" -> 53
      [] pattern = "tldr" /\ t = "KwTldr" -> 0
      [] OTHER -> -1

\* a piece of the request: the last `lead` characters of token from - 1, then the tokens from `from` on
NoExtract == [from |-> 0, lead |-> 0, len |-> 0]

Whole(tokens) == [from |-> 1, lead |-> 0, len |-> JoinLen(tokens, 1)]

\* match.group(1).strip() for the first match of the pattern, NoExtract without a match
RECURSIVE Group1(_, _, _, _)
Group1(who, pattern, tokens, i) ==
    IF i > Len(tokens) THEN NoExtract
    ELSE LET rest == IF who = "ConversationalAI" THEN ConvRest(pattern, tokens[i])
                     ELSE SimpleRest(pattern, tokens[i])
         IN  IF rest < 0 THEN Group1(who, pattern, tokens, i + 1)
             ELSE [from |-> i + 1, lead |-> rest,
                   len |-> IF rest > 0 /\ i < Len(tokens)
                           THEN rest + 1 + JoinLen(tokens, i + 1)
                           ELSE rest + JoinLen(tokens, i + 1)]

Matches(who, pattern, tokens) ==
    \E i \in DOMAIN tokens :
        (IF who = "ConversationalAI" THEN ConvRest(pattern, tokens[i])
         ELSE SimpleRest(pattern, tokens[i])) >= 0

\* for pattern in patterns: if match and len(text) > floor: return text
RECURSIVE FirstPattern(_, _, _, _, _)
FirstPattern(who, patterns, k, tokens, floor) ==
    IF k > Len(patterns) THEN NoExtract
    ELSE IF /\ Matches(who, patterns[k], tokens)
            /\ Group1(who, patterns[k], tokens, 1).len > floor
         THEN Group1(who, patterns[k], tokens, 1)
         ELSE FirstPattern(who, patterns, k + 1, tokens, floor)

\* ConversationalAI.extract_text_for_summary; NoExtract stands for None
extract_text_for_summary(tokens) ==
    LET patterns == <<"summarize this", "summary of", "tldr", "brief", "condense">>
        found == FirstPattern("ConversationalAI", patterns, 1, tokens, 100)
    IN  IF found # NoExtract THEN found
        ELSE IF JoinLen(tokens, 1) > 500 THEN Whole(tokens)
        ELSE NoExtract

\* SimpleAI.extract_text_to_summarize
extract_text_to_summarize(tokens) ==
    LET patterns == <<"summarize", "summary", "tldr", "brief", "condense", "key points",
                      "main points">>
        found == FirstPattern("SimpleAI", patterns, 1, tokens, 30)
    IN  IF found # NoExtract THEN found
        ELSE IF JoinLen(tokens, 1) > 200 THEN Whole(tokens)
        ELSE NoExtract

\* what a turn returns: the handler that answered, the text it summarized, the greeting picked
Reply(handler, of) == [type |-> "reply", handler |-> handler, text |-> of, pick |-> 0]

\* ConversationalAI.handle_summarization_request
handle_summarization_request(tokens) ==
    IF extract_text_for_summary(tokens) # NoExtract
    THEN Reply("summary", extract_text_for_summary(tokens))
    ELSE Reply("summarization_usage", NoExtract)

\* SimpleAI.handle_summarization
handle_summarization(tokens) ==
    IF extract_text_to_summarize(tokens) = NoExtract \/ extract_text_to_summarize(tokens).len < 50
    THEN Reply("summarization_usage", NoExtract)
    ELSE Reply("summary", extract_text_to_summarize(tokens))

\* ConversationalAI.generate_intelligent_response
generate_intelligent_response(input) ==
    LET user_lower == input.tokens
    IN  IF AnyIn({"hello", "hi", "hey", "good morning", "good afternoon"}, user_lower)
        THEN [Reply("greeting", NoExtract) EXCEPT !.pick = input.hash % 3]
        ELSE IF AnyIn({"who are you", "what are you", "tell me about yourself"}, user_lower)
        THEN Reply("identity", NoExtract)
        ELSE IF AnyIn({"what can you do", "help", "capabilities"}, user_lower)
        THEN Reply("help", NoExtract)
        ELSE IF AnyIn({"code", "programming", "python", "javascript", "html", "css", "sql"},
                      user_lower)
        THEN Reply("programming", NoExtract)
        ELSE IF AnyIn({"summarize", "summary", "tldr", "brief", "condense"}, user_lower)
        THEN handle_summarization_request(input.tokens)
        ELSE IF AnyIn({"write", "create", "story", "poem", "creative"}, user_lower)
        THEN Reply("creative", NoExtract)
        ELSE IF AnyIn({"explain", "how does", "what is", "why", "how to"}, user_lower)
        THEN Reply("explanation", NoExtract)
        ELSE IF AnyIn({"latest", "current", "news", "today", "recent", "search"}, user_lower)
        THEN Reply("information", NoExtract)
        ELSE IF AnyIn({"analyze", "analysis", "review", "feedback", "critique"}, user_lower)
        THEN Reply("analysis", NoExtract)
        ELSE IF AnyIn({"+", "-", "*", "/", "=", "calculate"}, user_lower)
        THEN Reply("math", NoExtract)
        ELSE Reply("conversational", NoExtract)

\* SimpleAI.is_summarization_request
is_summarization_request(tokens) ==
    AnyIn({"summarize", "summary", "tldr", "brief", "condense", "key points", "main points",
           "in short"}, tokens)

\* SimpleAI.process_input
process_input(input) ==
    LET user_lower == input.tokens
    IN  IF is_summarization_request(input.tokens) THEN handle_summarization(input.tokens)
        ELSE IF AnyIn({"analyze", "analysis", "review", "feedback", "critique"}, user_lower)
        THEN Reply("analysis", NoExtract)
        ELSE IF AnyIn({"hello", "hi", "hey"}, user_lower) THEN Reply("greeting", NoExtract)
        ELSE IF AnyIn({"help", "what can you do", "capabilities"}, user_lower)
        THEN Reply("help", NoExtract)
        ELSE IF AnyIn({"code", "programming", "python", "javascript"}, user_lower)
        THEN Reply("programming", NoExtract)
        ELSE IF AnyIn({"+", "-", "*", "/", "=", "calculate"}, user_lower)
        THEN Reply("math", NoExtract)
        ELSE IF AnyIn({"explain", "what is", "how does", "why"}, user_lower)
        THEN Reply("explanation", NoExtract)
        ELSE Reply("search_and_answer", NoExtract)

(***************************************************************************)
(* SpecChat: the user sends the same input turn after turn.                *)
(***************************************************************************)
Inputs == [tokens : SeqsUpTo(Tokens, MaxTokens), hash : 0..2]

InitChat ==
    /\ bot \in {"ConversationalAI", "SimpleAI"}
    /\ user_input \in Inputs
    /\ conversation_history = <<>>
    /\ reply = Pending
    /\ IdleSummarizer /\ IdleAnswer /\ IdleSnippets
    /\ IdleVoice

\* self.conversation_history = self.conversation_history[-20:]
LastTwenty(h) == IF Len(h) > 20 THEN SubSeq(h, Len(h) - 19, Len(h)) ELSE h

\* ConversationalAI.get_response
GetResponse ==
    /\ bot = "ConversationalAI"
    /\ Len(conversation_history) < 2 * MaxTurns
    /\ LET asked == LastTwenty(Append(conversation_history, [who |-> "User", said |-> user_input]))
           response_ == generate_intelligent_response(user_input)
       IN  /\ reply' = response_
           /\ conversation_history' = Append(asked, [who |-> "Limbor", said |-> response_])
    /\ UNCHANGED <<bot, user_input, sumVars, ansVars, snipVars, voiceVars>>

\* SimpleAI.chat
Chat ==
    /\ bot = "SimpleAI"
    /\ Len(conversation_history) < 2 * MaxTurns
    /\ LET response_ == process_input(user_input)
       IN  /\ reply' = response_
           /\ conversation_history' =
                  conversation_history \o <<[who |-> "User", said |-> user_input],
                                            [who |-> "Limbor", said |-> response_]>>
    /\ UNCHANGED <<bot, user_input, sumVars, ansVars, snipVars, voiceVars>>

NextChat == GetResponse \/ Chat

SpecChat == InitChat /\ [][NextChat]_vars

(***************************************************************************)
(* SpecSummarize: one call of a summarizer on a text.                      *)
(***************************************************************************)
InitSummarize ==
    /\ variant \in {"conversational", "simple"}
    /\ text \in Texts
    /\ summary = NoSummary
    /\ edit = NoEdit /\ scores = <<>> /\ selected = <<>>
    /\ IdleAnswer /\ IdleSnippets /\ IdleChat
    /\ IdleVoice

SummarizeText ==
    /\ variant = "conversational" /\ summary.label = "none"
    /\ summary' = summarize_text(text)
    /\ scores' = IF summary'.label \in {"summary", "unable"}
                 THEN scored_sentences(split_into_sentences(Strip(text))) ELSE <<>>
    /\ UNCHANGED <<variant, text, edit, selected, ansVars, snipVars, chatVars, voiceVars>>

CreateSummary ==
    /\ variant = "simple" /\ summary.label = "none"
    /\ summary' = SimpleAI_create_summary(text)
    /\ scores' = IF summary'.label = "summary" /\ Len(split_sentences(Strip(text))) > 3
                 THEN scored(split_sentences(Strip(text))) ELSE <<>>
    /\ UNCHANGED <<variant, text, edit, selected, ansVars, snipVars, chatVars, voiceVars>>

NextSummarize == SummarizeText \/ CreateSummary

SpecSummarize == InitSummarize /\ [][NextSummarize]_vars

(***************************************************************************)
(* SpecScore: the scoring loop on a list of sentences and on the same list *)
(* with one keyword, and the blank before it, added to one sentence.       *)
(***************************************************************************)
\* len(keyword)
KwLen(k) ==
    CASE k \in {"key"} -> 3
      [] k \in {"main"} -> 4
      [] k \in {"major"} -> 5
      [] k \in {"result"} -> 6
      [] k \in {"primary", "crucial", "however", "because"} -> 7
      [] k \in {"important", "essential", "therefore"} -> 9
      [] k \in {"conclusion"} -> 10
      [] k \in {"significant"} -> 11

ScoreTexts ==
    {[lead |-> 0, pieces |-> p \o Repeat(Plain, m), trail |-> 0] :
        p \in SeqsUpTo(PieceKinds, MaxFree), m \in {0, 2}}

\* the sentences the scoring loop of the variant gets
SentencesOf(v, t) == IF v = "simple" THEN split_sentences(t) ELSE split_into_sentences(t)

\* the (sentence, score) pairs the loop of the variant builds
ScoredBy(v, sentences) == IF v = "simple" THEN scored(sentences) ELSE scored_sentences(sentences)

\* the sentence with the keyword and a blank added to it
WithKeyword(s, e) == [s EXCEPT !.kws = @ \cup {e.keyword}, !.len = @ + e.grow]

InitScore ==
    /\ variant \in {"conversational", "simple"}
    /\ text \in ScoreTexts
    /\ \E k \in keywords : \E i \in 1..Len(SentencesOf(variant, text)) :
           edit = [at |-> i, keyword |-> k, grow |-> KwLen(k) + 1]
    /\ variant = "simple" => Len(SentencesOf(variant, text)) > 3
    /\ summary = NoSummary /\ scores = <<>> /\ selected = <<>>
    /\ IdleAnswer /\ IdleSnippets /\ IdleChat
    /\ IdleVoice

ScoreBoth ==
    /\ edit # NoEdit /\ scores = <<>>
    /\ LET sentences == SentencesOf(variant, text)
           edited == [sentences EXCEPT ![edit.at] = WithKeyword(@, edit)]
       IN  scores' = <<ScoredBy(variant, sentences), ScoredBy(variant, edited)>>
    /\ UNCHANGED <<variant, text, summary, edit, selected, ansVars, snipVars, chatVars, voiceVars>>

NextScore == ScoreBoth

SpecScore == InitScore /\ [][NextScore]_vars

(***************************************************************************)
(* SpecRepeat: the same text is summarized again in a later turn of the    *)
(* same chat object, with other turns in between.  summary is what the     *)
(* latest run returned, reply what the run before it returned.             *)
(***************************************************************************)
MaxRuns == 2

StrippedTexts ==
    {[lead |-> 0, pieces |-> p \o Repeat(k, m), trail |-> 0] :
        p \in SeqsUpTo(PieceKinds, MaxFree), k \in PadKinds, m \in 0..MaxPad}

InitRepeat ==
    /\ variant \in {"conversational", "simple"}
    /\ text \in StrippedTexts
    /\ summary = NoSummary
    /\ edit = NoEdit /\ scores = <<>> /\ selected = <<>>
    /\ bot = IF variant = "conversational" THEN "ConversationalAI" ELSE "SimpleAI"
    /\ user_input = NoInput
    /\ conversation_history = <<>>
    /\ reply = Pending
    /\ IdleAnswer /\ IdleSnippets
    /\ IdleVoice

Turn(h, kind) ==
    LET asked == Append(h, [who |-> "User", said |-> kind])
    IN  Append(IF bot = "ConversationalAI" THEN LastTwenty(asked) ELSE asked,
               [who |-> "Limbor", said |-> kind])

RunsSoFar ==
    Cardinality({i \in DOMAIN conversation_history :
                    conversation_history[i] = [who |-> "Limbor", said |-> "summary"]})

\* a turn that ends in summarize_text(text) / create_summary(text)
SummarizeAgain ==
    /\ RunsSoFar < MaxRuns
    /\ reply' = IF summary = NoSummary THEN Pending ELSE summary
    /\ summary' = IF variant = "conversational" THEN summarize_text(text)
                  ELSE SimpleAI_create_summary(text)
    /\ conversation_history' = Turn(conversation_history, "summary")
    /\ UNCHANGED <<variant, text, edit, scores, selected, bot, user_input, ansVars, snipVars, voiceVars>>

\* a turn answered by another handler, between two summaries
OtherTurn ==
    /\ RunsSoFar >= 1 /\ RunsSoFar < MaxRuns
    /\ conversation_history[Len(conversation_history)].said = "summary"
    /\ conversation_history' = Turn(conversation_history, "other")
    /\ UNCHANGED <<sumVars, bot, user_input, reply, ansVars, snipVars, voiceVars>>

NextRepeat == SummarizeAgain \/ OtherTurn

SpecRepeat == InitRepeat /\ [][NextRepeat]_vars

(***************************************************************************)
(* SpecRender: the rendering of the selected sentences on its own.         *)
(* ConversationalAI.create_summary is called with any list of up to MaxKey *)
(* sentences, which may already end in '.', '!' or '?', and an original    *)
(* text of 209, 1000 or 1001 characters; SimpleAI renders inside           *)
(* create_summary(text), from the sentences it selected itself.            *)
(***************************************************************************)
MaxKey == 3

Bare == [piece |-> 1, len |-> 40, kws |-> {}, digit |-> FALSE, stop |-> ""]
Stated == [piece |-> 2, len |-> 41, kws |-> {}, digit |-> FALSE, stop |-> "."]
Shouted == [piece |-> 3, len |-> 41, kws |-> {}, digit |-> FALSE, stop |-> "!"]
Queried == [piece |-> 4, len |-> 41, kws |-> {}, digit |-> FALSE, stop |-> "?"]

KeySentences == {Bare, Stated, Shouted, Queried}

OriginalTexts ==
    {[lead |-> 0, pieces |-> Repeat(Plain, 5), trail |-> 0],
     [lead |-> 0, pieces |-> <<Long, Long, Pause>> \o Repeat(Rich, 6), trail |-> 0],
     [lead |-> 1, pieces |-> <<Long, Long, Pause>> \o Repeat(Rich, 6), trail |-> 0]}

InitRender ==
    /\ variant \in {"conversational", "simple"}
    /\ \/ /\ variant = "conversational"
          /\ selected \in SeqsUpTo(KeySentences, MaxKey)
          /\ text \in OriginalTexts
       \/ /\ variant = "simple"
          /\ selected = <<>>
          /\ text \in ScoreTexts
    /\ summary = NoSummary
    /\ edit = NoEdit /\ scores = <<>>
    /\ IdleAnswer /\ IdleSnippets /\ IdleChat
    /\ IdleVoice

\* ConversationalAI.create_summary(key_sentences, original_text)
Render ==
    /\ variant = "conversational" /\ summary.label = "none"
    /\ summary' = create_summary(selected, text)
    /\ UNCHANGED <<variant, text, edit, scores, selected, ansVars, snipVars, chatVars, voiceVars>>

\* SimpleAI.create_summary(text), whose last lines print the key sentences
RenderKeyPoints ==
    /\ variant = "simple" /\ summary.label = "none"
    /\ summary' = SimpleAI_create_summary(text)
    /\ UNCHANGED <<variant, text, edit, scores, selected, ansVars, snipVars, chatVars, voiceVars>>

NextRender == Render \/ RenderKeyPoints

SpecRender == InitRender /\ [][NextRender]_vars

(***************************************************************************)
(* SpecExtract: the cut of the extract the summary API returned, in each   *)
(* of the four Wikipedia lookups.  env.wiki holds the length of the        *)
(* extract, within MaxOver characters of one of the four limits; the       *)
(* response is the text the lookup hands on.                               *)
(***************************************************************************)
MaxOver == 8

Limits == {300, 400, 500, 800}

ExtractLens == {b + d : b \in Limits, d \in (0 - MaxOver)..MaxOver} \cup {1, LongExtract}

Lookups == {"IntelligentLimbor", "ConversationalAI", "SimpleAI", "smart_search_test"}

InitExtract ==
    /\ assistant \in Lookups
    /\ \E n \in ExtractLens : env = [NoEnv EXCEPT !.wiki = [extract |-> n]]
    /\ query = <<>> /\ pc = "lookup" /\ sources = <<>> /\ consulted = <<>> /\ response = <<>>
    /\ IdleSummarizer /\ IdleSnippets /\ IdleChat
    /\ IdleVoice

Hand(on) ==
    /\ pc = "lookup"
    /\ response' = <<on>>
    /\ pc' = "done"
    /\ UNCHANGED <<assistant, query, env, sources, consulted, sumVars, snipVars, chatVars, voiceVars>>

DetailedContent == assistant = "IntelligentLimbor" /\ Hand(detailed_content(env.wiki.extract))

ConversationalExtract ==
    assistant = "ConversationalAI" /\ Hand(conversational_extract(env.wiki.extract))

SimpleExtract == assistant = "SimpleAI" /\ Hand(simple_extract(env.wiki.extract))

SmartExtract == assistant = "smart_search_test" /\ Hand(smart_extract(env.wiki.extract))

NextExtract == DetailedContent \/ ConversationalExtract \/ SimpleExtract \/ SmartExtract

SpecExtract == InitExtract /\ [][NextExtract]_vars

(***************************************************************************)
(* SpecKnowledge: IntelligentLimbor.get_built_in_knowledge called on its   *)
(* own, for queries of up to MaxTopicWords words that cover every topic    *)
(* test of the lookup; the response holds what it returned.                *)
(***************************************************************************)
MaxTopicWords == 2

TopicQueries == SeqsUpTo(Words \cup TopicWords, MaxTopicWords)

InitKnowledge ==
    /\ assistant = "IntelligentLimbor"
    /\ query \in TopicQueries
    /\ pc = "lookup" /\ env = NoEnv
    /\ sources = <<>> /\ consulted = <<>> /\ response = <<>>
    /\ IdleSummarizer /\ IdleSnippets /\ IdleChat
    /\ IdleVoice

GetBuiltInKnowledge ==
    /\ pc = "lookup"
    /\ response' = <<get_built_in_knowledge(query)>>
    /\ consulted' = <<"Built-in Knowledge">>
    /\ pc' = "returned"
    /\ UNCHANGED <<assistant, query, env, sources, sumVars, snipVars, chatVars, voiceVars>>

NextKnowledge == GetBuiltInKnowledge

SpecKnowledge == InitKnowledge /\ [][NextKnowledge]_vars

(***************************************************************************)
(* SpecSignals: the scoring loop of extract_key_sentences and of           *)
(* select_key_sentences on a list of up to MaxN sentences: one probed      *)
(* sentence among plain ones of 40 characters.  The probed sentence has a  *)
(* length within LenMargin of a limit of the length test and up to MaxOcc  *)
(* words that matter to the keyword and digit tests; the keywords it       *)
(* contains and whether it contains a digit are read off its words as      *)
(* `keyword.lower() in sentence.lower()` and re.search(r'\d+', sentence)   *)
(* do.  The loop's score is recorded with the four amounts it adds.        *)
(***************************************************************************)
MaxN == 6
MaxOcc == 2
LenMargin == 1

LenLimits == {20, 30, 50, 150, 200, 300}

ProbeLens == {b + d : b \in LenLimits, d \in (0 - LenMargin)..LenMargin}

SignalWords == {"Important", "important", "keyboard", "Significant", "2024"}

\* len(word)
SignalWordLen(w) ==
    CASE w \in {"Important", "important"} -> 9
      [] w = "keyboard" -> 8
      [] w = "Significant" -> 11
      [] OTHER -> 4

\* word.lower()
LowerSignal(w) ==
    CASE w = "Important" -> "important"
      [] w = "Significant" -> "significant"
      [] OTHER -> w

\* the listed keywords that are substrings of a lower-case word
KeywordsWithin(w) ==
    CASE w = "important" -> {"important"}
      [] w = "keyboard" -> {"key"}
      [] w = "significant" -> {"significant"}
      [] OTHER -> {}

\* the keywords k with k.lower() in sentence.lower()
KeywordsIn(words) == UNION {KeywordsWithin(LowerSignal(words[j])) : j \in DOMAIN words}

\* re.search(r'\d+', sentence)
DigitIn(words) == \E j \in DOMAIN words : words[j] = "2024"

RECURSIVE SignalWordsLen(_)
SignalWordsLen(words) ==
    IF words = <<>> THEN 0
    ELSE SignalWordLen(Head(words)) + (IF Len(words) > 1 THEN 1 ELSE 0)
         + SignalWordsLen(Tail(words))

Probe(len, words) ==
    [piece |-> 0, len |-> len, kws |-> KeywordsIn(words), digit |-> DigitIn(words),
     stop |-> "", words |-> words]

Filler(k) ==
    [piece |-> k, len |-> 40, kws |-> {}, digit |-> FALSE, stop |-> "", words |-> <<>>]

\* the lists of n sentences: the probe at index a, fillers around it
SignalSentences(n) ==
    {[k \in 1..n |-> IF k = a + 1 THEN Probe(len, words) ELSE Filler(k)] :
        a \in 0..(n - 1), len \in ProbeLens, words \in SeqsUpTo(SignalWords, MaxOcc)}

InitSignals ==
    /\ variant \in {"conversational", "simple"}
    /\ \E n \in 1..MaxN : selected \in SignalSentences(n)
    /\ variant = "simple" => Len(selected) > 3
    /\ \A k \in 1..Len(selected) : SignalWordsLen(selected[k].words) <= selected[k].len
    /\ text = NoText /\ summary = NoSummary /\ edit = NoEdit /\ scores = <<>>
    /\ IdleAnswer /\ IdleSnippets /\ IdleChat
    /\ IdleVoice

\* the amounts the loop body adds for sentences[i], and the score it appends
Signals(position, length, keyword, numeric, entry) ==
    [sentence |-> entry.sentence, position |-> position, length |-> length,
     keyword |-> keyword, numeric |-> numeric, score |-> entry.score]

\* ConversationalAI.extract_key_sentences, the scoring loop
ScoreSentences ==
    /\ variant = "conversational" /\ scores = <<>>
    /\ scores' = [i \in 1..Len(selected) |->
                     Signals(PositionScore(i - 1, Len(selected)),
                             LengthScore(selected[i].len),
                             KeywordScore(selected[i]),
                             DigitScore(selected[i]),
                             scored_sentences(selected)[i])]
    /\ UNCHANGED <<variant, text, summary, edit, selected, ansVars, snipVars, chatVars, voiceVars>>

\* SimpleAI.select_key_sentences, the scoring loop
SimpleScoreSentences ==
    /\ variant = "simple" /\ scores = <<>>
    /\ scores' = [i \in 1..Len(selected) |->
                     Signals(SimplePositionScore(i - 1, Len(selected)),
                             SimpleLengthScore(selected[i].len),
                             Cardinality(selected[i].kws \cap important_words),
                             DigitScore(selected[i]),
                             scored(selected)[i])]
    /\ UNCHANGED <<variant, text, summary, edit, selected, ansVars, snipVars, chatVars, voiceVars>>

NextSignals == ScoreSentences \/ SimpleScoreSentences

SpecSignals == InitSignals /\ [][NextSignals]_vars

(***************************************************************************)
(* SpecSegment: split_into_sentences and split_sentences called on their   *)
(* own, on texts of up to MaxPieces pieces whose stripped lengths lie at   *)
(* and next to the two thresholds (10 and 15), with Pause and Plain        *)
(* pieces among them.  summary.points holds the list returned.             *)
(***************************************************************************)
MaxPieces == 3

Ten == [len |-> 10, kws |-> {}, digit |-> FALSE]
Eleven == [len |-> 11, kws |-> {}, digit |-> FALSE]
Fifteen == [len |-> 15, kws |-> {}, digit |-> FALSE]
Sixteen == [len |-> 16, kws |-> {}, digit |-> FALSE]

SegmentKinds == {Ten, Eleven, Fifteen, Sixteen, Pause, Plain}

SegmentTexts ==
    {[lead |-> l, pieces |-> p, trail |-> r] :
        l \in 0..MaxWs, r \in 0..MaxWs, p \in SeqsUpTo(SegmentKinds, MaxPieces)}

InitSegment ==
    /\ variant \in {"conversational", "simple"}
    /\ text \in SegmentTexts
    /\ summary = NoSummary
    /\ edit = NoEdit /\ scores = <<>> /\ selected = <<>>
    /\ IdleAnswer /\ IdleSnippets /\ IdleChat
    /\ IdleVoice

\* the list a split returned
Split(sentences) == [NoSummary EXCEPT !.label = "split", !.points = sentences]

\* ConversationalAI.split_into_sentences(text)
SplitIntoSentences ==
    /\ variant = "conversational" /\ summary.label = "none"
    /\ summary' = Split(split_into_sentences(text))
    /\ UNCHANGED <<variant, text, edit, scores, selected, ansVars, snipVars, chatVars, voiceVars>>

\* SimpleAI.split_sentences(text)
SplitSentences ==
    /\ variant = "simple" /\ summary.label = "none"
    /\ summary' = Split(split_sentences(text))
    /\ UNCHANGED <<variant, text, edit, scores, selected, ansVars, snipVars, chatVars, voiceVars>>

NextSegment == SplitIntoSentences \/ SplitSentences

SpecSegment == InitSegment /\ [][NextSegment]_vars

(***************************************************************************)
(* SpecPowered: PoweredAI.chat.  env holds, for each of the three LLM      *)
(* providers, whether its key was set (enabled) and what its HTTP call     *)
(* does on every turn: "answer", or one of the failures "timeout"          *)
(* (requests.post raises), "http_error" (raise_for_status raises) and      *)
(* "malformed" (the JSON lacks the expected keys).  consulted lists the    *)
(* providers called during the last turn.                                  *)
(***************************************************************************)
MaxChats == 11

api_order == <<"groq", "gemini", "openai">>

ApiNames == {"groq", "gemini", "openai"}

ApiOutcomes == {"answer", "timeout", "http_error", "malformed"}

PoweredEnvs ==
    {e \in [ApiNames -> [enabled : BOOLEAN, outcome : ApiOutcomes \cup {"unasked"}]] :
        \A a \in ApiNames : e[a].enabled <=> e[a].outcome # "unasked"}

PoweredInputs == {"help", "setup", "status", "hello", "summarize", "python", "question"}

\* use_groq / use_gemini / use_openai: the content of the answer, or the exception raised
use_api(apis, name) ==
    IF apis[name].outcome = "answer" THEN [type |-> "reply", handler |-> name] ELSE Raise

\* PoweredAI.web_search_response: urllib is not a global of the module, so the
\* try block raises NameError before any request and the except branch answers
web_search_response == [type |-> "reply", handler |-> "search_error"]

\* PoweredAI.basic_response
basic_response(input) ==
    CASE input = "hello" -> [type |-> "reply", handler |-> "basic_greeting"]
      [] input = "summarize" -> [type |-> "reply", handler |-> "basic_summarize_usage"]
      [] input = "python" -> [type |-> "reply", handler |-> "basic_programming"]
      [] OTHER -> web_search_response

\* the providers the loop calls from api_order[i] on, in call order
RECURSIVE Called(_, _)
Called(apis, i) ==
    IF i > Len(api_order) THEN <<>>
    ELSE IF ~apis[api_order[i]].enabled THEN Called(apis, i + 1)
    ELSE IF use_api(apis, api_order[i]) = Raise
    THEN <<api_order[i]>> \o Called(apis, i + 1)
    ELSE <<api_order[i]>>

RECURSIVE ai_powered_from_uncaught(_, _, _)
ai_powered_from_uncaught(apis, input, i) ==
    IF i > Len(api_order) THEN basic_response(input)
    ELSE IF apis[api_order[i]].enabled
    THEN use_api(apis, api_order[i])
    ELSE ai_powered_from_uncaught(apis, input, i + 1)

\* the loop of ai_powered_response from api_order[i] on; except Exception: continue
RECURSIVE ai_powered_from(_, _, _)
ai_powered_from(apis, input, i) ==
    IF i > Len(api_order) THEN basic_response(input)
    ELSE IF apis[api_order[i]].enabled /\ use_api(apis, api_order[i]) # Raise
    THEN use_api(apis, api_order[i])
    ELSE ai_powered_from(apis, input, i + 1)

ai_powered_response_uncaught(apis, input) == ai_powered_from_uncaught(apis, input, 1)

\* PoweredAI.ai_powered_response
ai_powered_response(apis, input) == ai_powered_from(apis, input, 1)

\* PoweredAI.process_input
powered_process_input(apis, input) ==
    CASE input = "help" -> [type |-> "reply", handler |-> "show_help"]
      [] input = "setup" -> [type |-> "reply", handler |-> "setup"]
      [] input = "status" -> [type |-> "reply", handler |-> "show_status"]
      [] OTHER -> IF \E a \in ApiNames : apis[a].enabled
                  THEN ai_powered_response(apis, input)
                  ELSE basic_response(input)

InitPowered ==
    /\ bot = "PoweredAI"
    /\ user_input \in PoweredInputs
    /\ env \in PoweredEnvs
    /\ conversation_history = <<>> /\ reply = Pending
    /\ assistant = "idle" /\ query = <<>> /\ pc = "idle"
    /\ sources = <<>> /\ consulted = <<>> /\ response = <<>>
    /\ IdleSummarizer /\ IdleSnippets
    /\ IdleVoice

\* PoweredAI.chat
PoweredChat ==
    /\ bot = "PoweredAI"
    /\ Len(conversation_history) < 2 * MaxChats
    /\ LET response_ == powered_process_input(env, user_input)
       IN  /\ reply' = response_
           /\ conversation_history' =
                  LastTwenty(conversation_history
                             \o <<[role |-> "user", content |-> user_input],
                                  [role |-> "assistant", content |-> response_]>>)
    /\ consulted' = IF user_input \in {"help", "setup", "status"} THEN <<>> ELSE Called(env, 1)
    /\ UNCHANGED <<bot, user_input, env, assistant, query, pc, sources, response, sumVars, snipVars, voiceVars>>

NextPowered == PoweredChat

SpecPowered == InitPowered /\ [][NextPowered]_vars

(***************************************************************************)
(* SpecVoice: LamboSystemAI's voice flag handling.  toggle_voice runs on   *)
(* the hotkey listener's thread and on the menu's thread, one statement at *)
(* a time; each thread started on voice_loop opens its input stream, then  *)
(* tests `self.is_listening and self.is_active` before every pass of the   *)
(* loop, where it waits on audio_queue.get.  Each caller toggles at most   *)
(* MaxToggles times and at most MaxThreads threads are started.            *)
(***************************************************************************)
MaxToggles == 2
MaxThreads == 3

Callers == {"hotkey", "menu"}

Resting == [pc |-> "idle", seen |-> FALSE, done |-> 0]

\* LamboSystemAI.__init__: the voice model was found and the first thread started,
\* or it was not and is_active is False
InitVoice ==
    /\ \/ is_active = TRUE /\ is_listening = TRUE /\ voice_threads = <<"starting">>
       \/ is_active = FALSE /\ is_listening = FALSE /\ voice_threads = <<>>
    /\ toggling = [c \in Callers |-> Resting]
    /\ IdleSummarizer /\ IdleAnswer /\ IdleSnippets /\ IdleChat

At(c, pc_) == toggling[c].pc = pc_

Goto(c, pc_) == toggling' = [toggling EXCEPT ![c].pc = pc_]

Others == <<sumVars, ansVars, snipVars, chatVars>>

\* toggle_voice: the read of `not self.is_active`
ToggleRead(c) ==
    /\ At(c, "idle") /\ toggling[c].done < MaxToggles
    /\ toggling' = [toggling EXCEPT ![c] = [pc |-> "write", seen |-> is_active, done |-> @.done + 1]]
    /\ UNCHANGED <<is_active, is_listening, voice_threads, Others>>

\* toggle_voice: self.is_active = ...
ToggleWrite(c) ==
    /\ At(c, "write")
    /\ is_active' = ~toggling[c].seen
    /\ Goto(c, "branch")
    /\ UNCHANGED <<is_listening, voice_threads, Others>>

\* toggle_voice: if self.is_active
ToggleBranch(c) ==
    /\ At(c, "branch")
    /\ Goto(c, IF is_active THEN "if_not_listening" ELSE "clear")
    /\ UNCHANGED <<is_active, is_listening, voice_threads, Others>>

\* toggle_voice: self.is_listening = False
ClearListening(c) ==
    /\ At(c, "clear")
    /\ is_listening' = FALSE
    /\ Goto(c, "idle")
    /\ UNCHANGED <<is_active, voice_threads, Others>>

\* toggle_voice: if not self.is_listening: self.start_voice_thread()
IfNotListening(c) ==
    /\ At(c, "if_not_listening")
    /\ Goto(c, IF is_listening THEN "idle" ELSE "start")
    /\ UNCHANGED <<is_active, is_listening, voice_threads, Others>>

\* start_voice_thread: if self.is_listening: return
StartVoiceThread(c) ==
    /\ At(c, "start")
    /\ Goto(c, IF is_listening THEN "idle" ELSE "set")
    /\ UNCHANGED <<is_active, is_listening, voice_threads, Others>>

\* start_voice_thread: self.is_listening = True
SetListening(c) ==
    /\ At(c, "set")
    /\ is_listening' = TRUE
    /\ Goto(c, "spawn")
    /\ UNCHANGED <<is_active, voice_threads, Others>>

\* start_voice_thread: threading.Thread(target=self.voice_loop, daemon=True).start()
StartThread(c) ==
    /\ At(c, "spawn") /\ Len(voice_threads) < MaxThreads
    /\ voice_threads' = Append(voice_threads, "starting")
    /\ Goto(c, "idle")
    /\ UNCHANGED <<is_active, is_listening, Others>>

Started(t) == t \in DOMAIN voice_threads

Step(t, from, to) ==
    /\ Started(t) /\ voice_threads[t] = from
    /\ voice_threads' = [voice_threads EXCEPT ![t] = to]

\* voice_loop: with sd.RawInputStream(...)
OpenStream(t) ==
    /\ Step(t, "starting", "test_listening")
    /\ UNCHANGED <<is_active, is_listening, toggling, Others>>

\* voice_loop: the stream cannot be opened; except Exception: self.is_listening = False
StreamFails(t) ==
    /\ Step(t, "starting", "ended")
    /\ is_listening' = FALSE
    /\ UNCHANGED <<is_active, toggling, Others>>

\* voice_loop: while self.is_listening ...
TestListening(t) ==
    /\ Started(t) /\ voice_threads[t] = "test_listening"
    /\ voice_threads' = [voice_threads EXCEPT ![t] = IF is_listening THEN "test_active" ELSE "ended"]
    /\ UNCHANGED <<is_active, is_listening, toggling, Others>>

\* voice_loop: ... and self.is_active
TestActive(t) ==
    /\ Started(t) /\ voice_threads[t] = "test_active"
    /\ voice_threads' = [voice_threads EXCEPT ![t] = IF is_active THEN "consuming" ELSE "ended"]
    /\ UNCHANGED <<is_active, is_listening, toggling, Others>>

\* voice_loop: data = self.audio_queue.get(timeout=1) and the handling of it
Consume(t) ==
    /\ Step(t, "consuming", "test_listening")
    /\ UNCHANGED <<is_active, is_listening, toggling, Others>>

NextVoice ==
    \/ \E c \in Callers :
           \/ ToggleRead(c) \/ ToggleWrite(c) \/ ToggleBranch(c) \/ ClearListening(c)
           \/ IfNotListening(c) \/ StartVoiceThread(c) \/ SetListening(c) \/ StartThread(c)
    \/ \E t \in 1..MaxThreads :
           \/ OpenStream(t) \/ StreamFails(t) \/ TestListening(t) \/ TestActive(t) \/ Consume(t)

SpecVoice == InitVoice /\ [][NextVoice]_vars

(***************************************************************************)
(* SpecHandle: SimpleAI.handle_summarization on an extracted text.         *)
(***************************************************************************)
\* what extract_text_to_summarize hands over: the stripped group of a pattern if it has
\* more than 30 characters, or the whole input if that has more than 200
ExtractedTexts == {t \in Texts : (t.lead = 0 /\ t.trail = 0 /\ TextLen(t) > 30) \/ TextLen(t) > 200}

\* len(summary) of what SimpleAI.create_summary returns: "This text is already brief:"
\* and two newlines are 29 characters, "This text is already concise:" and two are 31,
\* "**Key Points:**" and a newline are 16
SimpleSummaryLen(s) ==
    IF s.label = "brief" THEN 29 + TextLen(s.body)
    ELSE IF s.label = "concise" THEN 31 + TextLen(s.body)
    ELSE JoinedLen(s.header, s.lines)

\* the lengths a, b among the texts here for which the float a / b * 100 falls below the
\* whole number 100a/b: 377 / 650 * 100 is 57.99999999999999
FloatShort == {<<377, 650>>}

\* int(a / b * 100)
Percent(a, b) == (100 * a) \div b - (IF <<a, b>> \in FloatShort THEN 1 ELSE 0)

\* handle_summarization from the extracted text on: the usage note, or the summary with
\* the two lengths and the compression it reports
compression_report(text_to_summarize) ==
    LET made == SimpleAI_create_summary(text_to_summarize)
    IN  IF TextLen(text_to_summarize) < 50 THEN [type |-> "usage"]
        ELSE [type |-> "summarized", summary |-> made,
              original |-> TextLen(text_to_summarize),
              length |-> SimpleSummaryLen(made),
              compression |-> 100 - Percent(SimpleSummaryLen(made),
                                            TextLen(text_to_summarize))]

InitHandle ==
    /\ variant = "simple"
    /\ text \in ExtractedTexts
    /\ summary = NoSummary
    /\ edit = NoEdit /\ scores = <<>> /\ selected = <<>>
    /\ IdleAnswer /\ IdleSnippets /\ IdleChat /\ IdleVoice

HandleSummarization ==
    /\ variant = "simple" /\ reply = Pending
    /\ reply' = compression_report(text)
    /\ summary' = IF reply'.type = "summarized" THEN reply'.summary ELSE NoSummary
    /\ UNCHANGED <<variant, text, edit, scores, selected, bot, user_input,
                   conversation_history, ansVars, snipVars, voiceVars>>

NextHandle == HandleSummarization

SpecHandle == InitHandle /\ [][NextHandle]_vars

(***************************************************************************)
(* SpecLimbor: LimborAI.text_mode handing typed commands to                *)
(* process_command.  A command is described by what the tests of           *)
(* process_command see in it; the outcome of the request search_web makes  *)
(* is drawn with the command.                                              *)
(***************************************************************************)
MaxCommands == 2

\* greet: holds "hello", "hi" or "hey"; clock: asks the time or the date; phrase: holds
\* one of the search phrases; terms: len(search_terms) once the phrases are removed;
\* rest: the later branch it would take; len: len(command.strip()); quotes: the query
\* itself holds the words "couldn't get a clear answer"
Command(name, greet, clock, phrase, terms, rest, len, quotes) ==
    [name |-> name, greet |-> greet, clock |-> clock, phrase |-> phrase, terms |-> terms,
     rest |-> rest, len |-> len, quotes |-> quotes]

Commands ==
    {Command("hello", TRUE, "", FALSE, 5, "", 5, FALSE),
     Command("what is this", TRUE, "", TRUE, 4, "", 12, FALSE),
     Command("what time is it", FALSE, "time", FALSE, 15, "", 15, FALSE),
     Command("what day is it", FALSE, "date", FALSE, 14, "", 14, FALSE),
     Command("what is rust", FALSE, "", TRUE, 4, "", 12, FALSE),
     Command("what is", FALSE, "", TRUE, 0, "", 7, FALSE),
     Command("why couldn't get a clear answer", FALSE, "", TRUE, 31, "", 31, TRUE),
     Command("open notes", FALSE, "", FALSE, 10, "open", 10, FALSE),
     Command("settings", FALSE, "", FALSE, 8, "settings", 8, FALSE),
     Command("rust borrow rules", FALSE, "", FALSE, 17, "", 17, FALSE),
     Command("ok", FALSE, "", FALSE, 2, "", 2, FALSE)}

\* what the request brings back: the first element search_web finds in the page, none of
\* them, or an exception; says: the text found holds "couldn't get a clear answer"
SearchOutcomes ==
    {[page |-> p, says |-> s] : p \in {"answer_box", "featured", "results"}, s \in BOOLEAN}
    \cup {[page |-> "nothing", says |-> FALSE], [page |-> "raises", says |-> FALSE]}

\* LimborAI.search_web(query): the message returned and whether it holds the words
\* "couldn't get a clear answer"
search_web(command, form, outcome) ==
    IF outcome.page = "raises"
    THEN [type |-> "reply", message |-> "let me open Google for", of |-> command.name,
          form |-> form, says |-> command.quotes]
    ELSE IF outcome.page = "nothing"
    THEN [type |-> "reply", message |-> "couldn't get a clear answer. Let me open",
          of |-> command.name, form |-> form, says |-> TRUE]
    ELSE [type |-> "reply", message |-> outcome.page, of |-> command.name, form |-> form,
          says |-> outcome.says]

Call(fn, command, form) == [call |-> fn, of |-> command.name, form |-> form]

Fixed(message, command) ==
    [type |-> "reply", message |-> message, of |-> command.name, form |-> "", says |-> FALSE]

\* LimborAI.process_command(command): the reply and the calls made, in order
process_command(command, outcome) ==
    IF command.greet THEN [reply |-> Fixed("greeting", command), calls |-> <<>>]
    ELSE IF command.clock # "" THEN [reply |-> Fixed(command.clock, command), calls |-> <<>>]
    ELSE IF command.phrase
    THEN IF command.terms > 2
         THEN [reply |-> search_web(command, "terms", outcome),
               calls |-> <<Call("speak", command, ""), Call("search_web", command, "terms")>>
                         \o (IF search_web(command, "terms", outcome).says
                             THEN <<Call("open_web_search", command, "terms")>> ELSE <<>>)]
         ELSE [reply |-> Fixed("What would you like me to search for?", command),
               calls |-> <<>>]
    ELSE IF command.rest # "" THEN [reply |-> Fixed(command.rest, command), calls |-> <<>>]
    ELSE IF command.len > 3
    THEN [reply |-> search_web(command, "command", outcome),
          calls |-> <<Call("speak", command, ""), Call("search_web", command, "command"),
                      Call("open_web_search", command, "command")>>]
    ELSE [reply |-> Fixed("I'm here to help!", command), calls |-> <<>>]

\* LimborAI.__init__: no command yet
InitLimbor ==
    /\ bot = "LimborAI" /\ user_input = NoInput
    /\ conversation_history = <<>> /\ reply = Pending
    /\ IdleSummarizer /\ IdleAnswer /\ IdleSnippets /\ IdleVoice

\* text_mode: one typed command, processed and entered in the history
TextMode ==
    /\ bot = "LimborAI" /\ Len(conversation_history) < 2 * MaxCommands
    /\ \E command \in Commands, outcome \in SearchOutcomes :
           /\ user_input' = command
           /\ env' = outcome
           /\ reply' = process_command(command, outcome).reply
           /\ consulted' = process_command(command, outcome).calls
           /\ conversation_history' =
                  conversation_history \o <<[role |-> "User", content |-> command.name],
                                             [role |-> "Limbor", content |-> reply'.message]>>
    /\ UNCHANGED <<bot, assistant, query, pc, sources, response, sumVars, snipVars, voiceVars>>

NextLimbor == TextMode

SpecLimbor == InitLimbor /\ [][NextLimbor]_vars

\* the qualifying sentences of the text, by the threshold of the variant called
Qualifying ==
    IF variant = "simple" THEN split_sentences(Strip(text))
    ELSE split_into_sentences(Strip(text))

\* the character count below which the variant called hands the text back as brief
BriefBelow == IF variant = "simple" THEN 100 ELSE 200

Returned == summary.label # "none"

PointPieces == {summary.points[i].piece : i \in 1..Len(summary.points)}

(* C1 (as amended): a text with fewer than 3 qualifying sentences is handed
   back whole, stripped of its surrounding blanks and with no sentence
   selected, labelled "already brief" when the stripped text is shorter than
   200 characters (100 in SimpleAI) and "already concise" otherwise. *)
C1_FewSentencesReturnedStripped ==
    (Returned /\ Len(Qualifying) < 3) =>
        /\ summary.body = Strip(text)
        /\ summary.points = <<>>
        /\ summary.label = IF TextLen(Strip(text)) < BriefBelow THEN "brief" ELSE "concise"

C1_Witness ==
    /\ variant = "conversational" /\ summary.label = "concise"
    /\ Len(Qualifying) = 2 /\ text.lead = 1 /\ summary.body = Strip(text)

(* C1 (as stated): a text with fewer than 3 qualifying sentences is returned
   verbatim behind the "already concise" label. *)
C1_Original ==
    (Returned /\ Len(Qualifying) < 3) =>
        summary.label = "concise" /\ summary.body = text

(* C2 (as stated): the selected sentences appear in the summary in the order
   they have in the input. *)
C2_SelectedInSourceOrder ==
    summary.label = "summary" =>
        \A i, j \in 1..Len(summary.points) :
            i < j => summary.points[i].piece < summary.points[j].piece

\* the keep_count of the claim
ClaimedKeepCount(n) ==
    IF n <= 5 THEN 2 ELSE IF n <= 10 THEN 3 ELSE Max(3, n \div 3)

KeptAreDistinctInputSentences ==
    /\ \A i \in 1..Len(summary.points) :
           \E k \in 1..Len(Qualifying) : summary.points[i] = Qualifying[k]
    /\ Cardinality(PointPieces) = Len(summary.points)

(* C3 (as amended): ConversationalAI selects sentences exactly when the
   stripped text has at least 200 characters and n >= 4 qualifying sentences,
   and then keeps exactly 2 if n <= 5, 3 if 6 <= n <= 10 and max(3, n // 3)
   if n > 10; SimpleAI selects exactly when the stripped text has at least
   100 characters and n >= 3, keeping all 3 sentences when n = 3 and
   min(3, max(2, n // 3)) when n >= 4.  Every kept sentence is an input
   sentence and none is kept twice. *)
C3_KeepCountPerVariant ==
    Returned =>
        LET n == Len(Qualifying)
            long == TextLen(Strip(text)) >= BriefBelow
        IN  /\ variant = "conversational" =>
                /\ summary.label = "summary" <=> (long /\ n >= 4)
                /\ summary.label = "summary" => Len(summary.points) = ClaimedKeepCount(n)
            /\ variant = "simple" =>
                /\ summary.label = "summary" <=> (long /\ n >= 3)
                /\ summary.label = "summary" =>
                       Len(summary.points) = IF n = 3 THEN 3 ELSE Min(3, Max(2, n \div 3))
            /\ KeptAreDistinctInputSentences

C3_Witness ==
    /\ variant = "conversational" /\ summary.label = "summary"
    /\ Len(Qualifying) > 10 /\ Len(summary.points) = 4

(* C3 (as stated): every input with n >= 3 qualifying sentences is summarized
   to exactly keep_count sentences, each an input sentence, none twice. *)
C3_Original ==
    (Returned /\ Len(Qualifying) >= 3) =>
        /\ summary.label = "summary"
        /\ Len(summary.points) = ClaimedKeepCount(Len(Qualifying))
        /\ KeptAreDistinctInputSentences

(***************************************************************************)
(* Claims about the answer compiler.                                       *)
(***************************************************************************)
Limbor == assistant = "IntelligentLimbor"

Providers == [i \in DOMAIN consulted |-> consulted[i].provider]

AllGaveNone == \A i \in DOMAIN consulted : consulted[i].gave = None

\* the lookups that gave a result, in the order they were consulted
RECURSIVE Found(_, _)
Found(log, i) ==
    IF i > Len(log) THEN <<>>
    ELSE (IF log[i].gave # None THEN <<<<log[i].provider, log[i].gave>>>> ELSE <<>>)
         \o Found(log, i + 1)

(* C4: for every query, the empty and the blank one included, and whatever
   the transports answer, get_comprehensive_answer never raises, always
   goes on to return, and returns a non-empty text. *)
C4_AnswerTotal ==
    /\ pc # "raised"
    /\ pc # "done" => ENABLED NextAnswer
    /\ pc = "done" => response # <<>>

C4_Witness ==
    /\ Limbor /\ pc = "done" /\ query = <<>>
    /\ env.wiki.search = "timeout" /\ env.ddg.page = "timeout"
    /\ Len(response) = 1

(* C5: when every provider consulted returned no result, no source is
   reported and the returned text is a message that names the query, says
   that nothing was found and advises to rephrase: for IntelligentLimbor
   the sources list is empty and the text is that message alone; for
   SimpleAI the text has no "From ..." section and is that message between
   the "Answer to" heading and the completion time. *)
C5_NothingFoundMessage ==
    (pc = "done" /\ AllGaveNone) =>
        /\ sources = <<>>
        /\ Limbor =>
               response = <<[seg |-> "could_not_find", about |-> query,
                             advice |-> "rephrase or be more specific"]>>
        /\ ~Limbor =>
               response = <<[seg |-> "answer_to", about |-> query],
                            [seg |-> "no_clear_results", about |-> query,
                             advice |-> "rephrase or be more specific"],
                            [seg |-> "search_completed_at"]>>

C5_Witness ==
    /\ Limbor /\ pc = "done" /\ AllGaveNone /\ query = <<"python">>
    /\ env.wiki.search = "hits" /\ env.ddg.page = "html"
    /\ response[1].about = <<"python">>

(* C6: every call consults Built-in Knowledge, then Wikipedia, then the
   DuckDuckGo web search (and after it the news search, for a news query),
   whatever the earlier ones returned, and sources holds exactly the
   lookups that returned a result, in that order. *)
C6_AllConsultedInPriorityOrder ==
    Limbor =>
    /\ pc = "wikipedia" => Providers = <<"Built-in Knowledge">>
    /\ pc = "web" => Providers = <<"Built-in Knowledge", "Wikipedia">>
    /\ pc \in {"compile", "done"} =>
        /\ Providers = <<"Built-in Knowledge", "Wikipedia", "DuckDuckGo Search">>
                       \o (IF \E i \in DOMAIN query : query[i] = "news"
                           THEN <<"News Sources">> ELSE <<>>)
        /\ sources = Found(consulted, 1)

C6_Witness ==
    /\ Limbor /\ pc = "done" /\ Len(sources) = 3
    /\ sources[1][1] = "Built-in Knowledge"
    /\ sources[2][1] = "Wikipedia"
    /\ sources[3][1] = "DuckDuckGo Search"

\* the index of the first "rule" segment after the summary label (at 3)
RECURSIVE RuleFrom(_, _)
RuleFrom(r, k) == IF k > Len(r) \/ r[k].seg = "rule" THEN k ELSE RuleFrom(r, k + 1)

(* C7: for a non-empty sources list, the summary part (between the SUMMARY
   label and the rule that closes it) is not empty and prints sources[0]
   only; sources[0] is printed nowhere else; every later source is
   announced exactly once, in list order and numbered from 1, after the
   additional-sources label, followed by its own details; and the last
   segment reports len(sources) sources consulted. *)
C7_PrimaryThenAdditional ==
    (pc = "done" /\ sources # <<>>) =>
        LET r == response
            close == RuleFrom(r, 4)
            IsSource(x) == x.seg = "source"
            announced == SelectSeq(r, IsSource)
        IN  /\ r[3].seg = "summary_label"
            /\ close > 4 /\ close <= Len(r)
            /\ \A k \in 1..Len(r) : (r[k].src = 1) <=> (3 < k /\ k < close)
            /\ announced = [i \in 1..(Len(sources) - 1) |->
                               Seg("source", i + 1, sources[i + 1][1], i)]
            /\ \A k \in 1..Len(r) :
                   r[k].src > 1 =>
                       /\ k > close + 1 /\ r[close + 1].seg = "additional_label"
                       /\ r[k].seg = "source" \/ r[k - 1].src = r[k].src
            /\ r[Len(r)] = Seg("sources_consulted", 0, "", Len(sources))

C7_Witness ==
    /\ Limbor /\ pc = "done" /\ Len(sources) = 4
    /\ sources[1][1] = "Built-in Knowledge" /\ sources[4][1] = "News Sources"
    /\ \E k \in 1..Len(response) : response[k].seg = "item" /\ response[k].src = 4

(* C8 (as amended): whenever the Built-in Knowledge provider matches the
   query (a query containing "npu" in any case always does), the first
   entry of sources is ("Built-in Knowledge", its structured result)
   whatever Wikipedia and the web search return, and the SUMMARY section of
   the returned text, which follows the report title naming the query and
   the SUMMARY label, begins with that result's definition. *)
C8_BuiltInFirstAndDefinitionLeadsSummary ==
    Limbor =>
    /\ (pc # "built_in" /\ \E i \in DOMAIN query : query[i] \in {"NPU", "npu"}) =>
           consulted[1].gave.type = "dict" /\ consulted[1].gave.topic = "npu"
    /\ (pc \in {"compile", "done"} /\ consulted[1].gave # None) =>
           /\ sources[1] = <<"Built-in Knowledge", consulted[1].gave>>
           /\ consulted[1].gave.type = "dict"
    /\ (pc = "done" /\ consulted[1].gave # None) =>
           /\ response[1] = Title(query)
           /\ response[3].seg = "summary_label"
           /\ response[4] = Seg("definition", 1, consulted[1].gave.topic, 0)

C8_Witness ==
    /\ Limbor /\ pc = "done" /\ query = <<"explain", "NPU">>
    /\ Len(sources) = 3 /\ sources[1][2].topic = "npu"
    /\ response[4].seg = "definition"

(* C8 (as stated): whenever the Built-in Knowledge provider matches, the
   returned text begins with the definition. *)
C8_Original ==
    (Limbor /\ pc = "done" /\ consulted[1].gave # None) =>
        /\ sources[1] = <<"Built-in Knowledge", consulted[1].gave>>
        /\ response[1].seg = "definition"

\* the transport of a lookup failed: it timed out or raised, or the body is malformed
WikiFailed(w) ==
    \/ w.search \in {"timeout", "not_json", "no_title", "no_query"}
    \/ \E i \in DOMAIN w.pages : w.pages[i] \in {"timeout", "not_json"}

PageFailed(d) == d.page = "timeout" \/ d.elements = <<>>

Gave(name) ==
    LET i == CHOOSE k \in DOMAIN consulted : consulted[k].provider = name
    IN  consulted[i].gave

Asked(name) == \E k \in DOMAIN consulted : consulted[k].provider = name

(* The part of C9 that holds: no provider lookup raises, and when the
   transport call times out or raises, or the body is malformed, the lookup
   returns None and the compiler goes on to the remaining providers and to
   the compilation. *)
FailuresBecomeNoResult ==
    Limbor =>
    /\ pc # "raised"
    /\ \A k \in DOMAIN consulted : consulted[k].gave # Raise
    /\ (Asked("Wikipedia") /\ WikiFailed(env.wiki)) =>
           Gave("Wikipedia") = None /\ pc \in {"web", "compile", "done"}
    /\ (Asked("DuckDuckGo Search") /\ PageFailed(env.ddg)) =>
           Gave("DuckDuckGo Search") = None /\ pc \in {"compile", "done"}
    /\ (Asked("News Sources") /\ PageFailed(env.news)) => Gave("News Sources") = None

FailuresBecomeNoResult_Reached ==
    /\ Limbor /\ pc = "done" /\ Len(consulted) = 3
    /\ env.wiki.search = "hits" /\ env.wiki.pages = <<"no_extract", "not_json">>
    /\ env.ddg.page = "timeout"
    /\ Gave("Wikipedia") = None /\ Gave("DuckDuckGo Search") = None

\* the Wikipedia API answered 503 and the lookup returned the article all the same
C9_Witness ==
    /\ Limbor /\ pc = "done"
    /\ env.wiki.status = 503 /\ env.wiki.pages = <<"no_extract", "short">>
    /\ Gave("Wikipedia") = WikiDict(2, ShortExtract)
    /\ sources[1][1] = "Wikipedia"

(* C9 (as stated): a lookup whose transport timed out, raised, answered with
   a non-success status or sent a malformed body returns None. *)
C9_Original ==
    Limbor =>
    /\ pc # "raised"
    /\ (Asked("Wikipedia") /\ (WikiFailed(env.wiki) \/ env.wiki.status # 200)) =>
           Gave("Wikipedia") = None
    /\ (Asked("DuckDuckGo Search") /\ (PageFailed(env.ddg) \/ env.ddg.status # 200)) =>
           Gave("DuckDuckGo Search") = None

(***************************************************************************)
(* Claims about the web snippet extraction.                                *)
(***************************************************************************)
\* the candidate snippets of the page, in extraction order
Extracted == Candidates(soup, 1)

Returned_(t) == snippets.type = "snippets" /\ \E k \in DOMAIN snippets.items : snippets.items[k] = t

FirstAt(t) == CHOOSE i \in DOMAIN Extracted : Extracted[i] = t /\ \A j \in 1..(i - 1) : Extracted[j] # t

\* a is a substring of b, ignoring case
WithinIgnoringCase(a, b) ==
    LET la == [i \in DOMAIN a |-> IF a[i] = "Alpha" THEN "alpha" ELSE a[i]]
        lb == [i \in DOMAIN b |-> IF b[i] = "Alpha" THEN "alpha" ELSE b[i]]
    IN  \E k \in 0..(Len(lb) - Len(la)) : \A i \in 1..Len(la) : la[i] = lb[k + i]

CandidateTexts == {Extracted[i] : i \in DOMAIN Extracted}

(* C10 (as amended): if one candidate's text is a case-insensitive
   substring of another candidate's text that was extracted before it, the
   result does not contain the later, contained one. *)
C10_ContainedAfterContainerDropped ==
    snippets # Pending =>
        \A a, b \in CandidateTexts :
            (a # b /\ WithinIgnoringCase(b, a) /\ FirstAt(a) < FirstAt(b)) =>
                ~Returned_(b)

C10_Witness ==
    /\ soup.by_selector = <<<<ABA>>, <<>>, <<>>, <<ABcaps, BB>>, <<>>>>
    /\ snippets = SnippetList(<<ABA, BB>>)

(* C10 (as stated): if one candidate's text is a case-insensitive substring
   of another's, the result contains at most one of the two. *)
C10_Original ==
    snippets # Pending =>
        \A a, b \in CandidateTexts :
            (a # b /\ WithinIgnoringCase(b, a)) => ~(Returned_(a) /\ Returned_(b))

\* the candidate at i is contained, ignoring case, in no candidate extracted before it
Novel(i) == \A j \in 1..(i - 1) : ~WithinIgnoringCase(Extracted[i], Extracted[j])

RECURSIVE NovelFrom(_)
NovelFrom(i) ==
    IF i > Len(Extracted) THEN <<>>
    ELSE (IF Novel(i) THEN <<Extracted[i]>> ELSE <<>>) \o NovelFrom(i + 1)

(* C11: extract_search_snippets never returns more than 3 snippets, and
   what it returns are the first 3 (or fewer) candidates it keeps, in
   extraction order: the candidates contained in no earlier candidate. *)
C11_AtMostThreeFirstKept ==
    snippets # Pending =>
        /\ snippets = None <=> NovelFrom(1) = <<>>
        /\ snippets # None =>
               /\ snippets.type = "snippets"
               /\ Len(snippets.items) <= 3
               /\ snippets.items = SubSeq(NovelFrom(1), 1, Min(3, Len(NovelFrom(1))))

C11_Witness ==
    /\ soup.by_selector = <<<<AB, BA>>, <<>>, <<>>, <<BB, ABA>>, <<>>>>
    /\ Len(NovelFrom(1)) = 4
    /\ snippets = SnippetList(<<AB, BA, BB>>)

\* search_duckduckgo_detailed looks at the first 3 result elements only
DuckDuckGoAtMostThree ==
    \A k \in DOMAIN consulted :
        (consulted[k].provider = "DuckDuckGo Search" /\ consulted[k].gave # None) =>
            Len(consulted[k].gave.items) <= 3

(***************************************************************************)
(* Claims about the chat routers.                                          *)
(***************************************************************************)
\* a summarization keyword of the claim, ready to be followed by the text to summarize
KeywordTokens == {"KwThis", "KwTldr", "KwSummaryOf", "KwSummarize"}

\* the length the extraction asks of the embedded text
Threshold == IF bot = "SimpleAI" THEN 30 ELSE 100

\* the request is a summarization keyword at i followed by text above the threshold
CarriesTextAfter(i) ==
    /\ i \in DOMAIN user_input.tokens
    /\ user_input.tokens[i] \in KeywordTokens
    /\ \A j \in 1..(i - 1) : user_input.tokens[j] \notin KeywordTokens
    /\ \A j \in (i + 1)..Len(user_input.tokens) : user_input.tokens[j] \notin KeywordTokens
    /\ JoinLen(user_input.tokens, i + 1) > Threshold

(* C12 (as stated): a request that carries a summarization keyword followed
   by text above the length threshold is answered with the summary of
   exactly that text, whatever else the request or the text contains. *)
C12_SummarizationRequestsSummarized ==
    reply # Pending =>
        \A i \in DOMAIN user_input.tokens :
            CarriesTextAfter(i) =>
                /\ reply.handler = "summary"
                /\ reply.text = [from |-> i + 1, lead |-> 0,
                                 len |-> JoinLen(user_input.tokens, i + 1)]

\* "Summarize this: <383 characters>" is answered with a greeting
C12_Witness ==
    /\ bot = "ConversationalAI" /\ user_input.tokens = <<"KwThis", "Body">>
    /\ reply.type = "reply" /\ reply.handler = "greeting"

\* the requests that are summarized as the claim says
SummarizedAsAsked ==
    /\ bot = "ConversationalAI" /\ user_input.tokens = <<"KwTldr", "Body">>
    /\ reply = Reply("summary", [from |-> 2, lead |-> 0, len |-> 383])

(* C13: summarizing the same text again, later in the same conversation
   and whatever turns came in between, returns the same output as the run
   before. *)
C13_SameTextSameSummary ==
    reply # Pending => summary = reply

C13_Witness ==
    /\ variant = "conversational" /\ Len(conversation_history) = 6
    /\ conversation_history[4].said = "other"
    /\ summary.label = "summary" /\ summary.footnote /\ Len(summary.points) = 4
    /\ reply = summary

(***************************************************************************)
(* Claims about the scoring.                                               *)
(***************************************************************************)
LengthClass(len) == IF variant = "simple" THEN SimpleLengthScore(len) ELSE LengthScore(len)

KeywordList == IF variant = "simple" THEN important_words ELSE keywords

EditedSentence == SentencesOf(variant, text)[edit.at]

(* C14: adding a keyword of the fixed set to a sentence that keeps its
   position and its length class never lowers its score: the score grows
   by one when the keyword is on the list of the variant called and the
   sentence did not contain it, and stays the same otherwise. *)
C14_KeywordNeverLowersScore ==
    (scores # <<>> /\ edit # NoEdit
        /\ LengthClass(EditedSentence.len + edit.grow) = LengthClass(EditedSentence.len)) =>
        LET before == scores[1][edit.at].score
            after == scores[2][edit.at].score
        IN  /\ after >= before
            /\ after = before + (IF /\ edit.keyword \in KeywordList
                                    /\ edit.keyword \notin EditedSentence.kws
                                 THEN 1 ELSE 0)

C14_Witness ==
    /\ variant = "conversational" /\ edit.keyword = "major" /\ edit.at = 2
    /\ EditedSentence.kws = {"important", "significant"}
    /\ scores # <<>> /\ scores[2][2].score = scores[1][2].score + 1

(* C15 (as stated): a text with no qualifying sentence is answered with the
   guidance message that asks for more substantial text, not with a summary
   and not with the text behind a label. *)
C15_NoSentencesGuidance ==
    (variant \in {"conversational", "simple"} /\ Returned /\ Len(Qualifying) = 0) =>
        summary.label = "unable"

\* 249 characters without a qualifying sentence come back as "already concise"
C15_Witness ==
    /\ variant = "conversational" /\ text.pieces = <<Pause, Pause>> /\ text.lead = 0
    /\ TextLen(Strip(text)) = 249 /\ Len(Qualifying) = 0
    /\ summary = Labelled("concise", Strip(text))

\* what holds instead: such a text is handed back whole, and nothing raises
NoSentencesHandedBack ==
    (variant \in {"conversational", "simple"} /\ Returned /\ Len(Qualifying) = 0) =>
        /\ summary.label \in {"brief", "concise"}
        /\ summary.body = Strip(text)

\* the summary came out of the rendering of one or more sentences
Rendered == summary.label = "summary" /\ Len(summary.points) >= 1

\* the mark a rendered sentence must end with: its own, or the period added to it
DueStop(sentence) == IF sentence.stop = "" THEN "." ELSE sentence.stop

(***************************************************************************)
(* C16 (as stated): one selected sentence is returned as plain prose       *)
(* ending in a period; two or more are returned under the "Key Points"     *)
(* header as one bullet line per sentence, in the given order, each ending *)
(* in exactly one of '.', '!', '?', a period being added only to a         *)
(* sentence that ends in none of them.                                     *)
(***************************************************************************)
C16_RenderedAsProseOrBullets ==
    Rendered =>
        /\ Len(summary.lines) = Len(summary.points)
        /\ \A i \in 1..Len(summary.lines) : summary.lines[i].sentence = summary.points[i]
        /\ Len(summary.points) = 1 =>
               /\ ~summary.header
               /\ summary.lines[1].marker = "plain"
               /\ summary.lines[1].stop = "."
        /\ Len(summary.points) >= 2 =>
               /\ summary.header
               /\ \A i \in 1..Len(summary.lines) :
                      /\ summary.lines[i].marker = "bullet"
                      /\ summary.lines[i].stop = DueStop(summary.points[i])

\* SimpleAI printed numbered lines that end in no mark at all
C16_Witness ==
    /\ variant = "simple" /\ Rendered
    /\ Len(summary.lines) = 3
    /\ \A i \in 1..3 : summary.lines[i].marker = "number" /\ summary.lines[i].stop = ""

\* ConversationalAI alone: bullets under the header for two or more sentences,
\* plain prose for one, every line ending in the sentence's own mark or the
\* period added to it
ConversationalRenderTerminated ==
    (variant = "conversational" /\ Rendered) =>
        /\ Len(summary.lines) = Len(summary.points)
        /\ summary.header <=> Len(summary.points) >= 2
        /\ \A i \in 1..Len(summary.lines) :
               /\ summary.lines[i].sentence = summary.points[i]
               /\ summary.lines[i].marker = (IF Len(summary.points) >= 2 THEN "bullet" ELSE "plain")
               /\ summary.lines[i].stop = DueStop(summary.points[i])

\* ConversationalAI returned a single sentence that ends in '!', unchanged
SingleSentenceKeepsItsMark ==
    /\ variant = "conversational" /\ Rendered
    /\ Len(summary.points) = 1 /\ summary.lines[1].stop = "!"

\* the characters of the header and the lines, joined by one separator each
RECURSIVE PrintedLen(_, _)
PrintedLen(points, bulleted) ==
    IF points = <<>> THEN 0
    ELSE (IF bulleted THEN 2 ELSE 0) + Head(points).len
         + (IF Head(points).stop = "" THEN 1 ELSE 0)
         + (IF Len(points) > 1 THEN 1 ELSE 0)
         + PrintedLen(Tail(points), bulleted)

SummaryLen ==
    (IF Len(summary.points) > 1 THEN 16 ELSE 0) + PrintedLen(summary.points, Len(summary.points) > 1)

(***************************************************************************)
(* C17: the summary ConversationalAI renders carries the compression       *)
(* footnote exactly when the original text it was given is longer than     *)
(* 1000 characters, and the footnote states the character count of that    *)
(* text and the character count of the summary rendered up to there, the   *)
(* header and the lines without the footnote itself.                       *)
(***************************************************************************)
C17_FootnoteOverThousand ==
    (variant = "conversational" /\ Rendered) =>
        /\ summary.footnote <=> TextLen(text) > 1000
        /\ summary.counts = (IF TextLen(text) > 1000 THEN <<TextLen(text), SummaryLen>> ELSE <<>>)

\* two sentences of a text of 1001 characters: 15 + 1 + 43 + 1 + 43 characters
C17_Witness ==
    /\ variant = "conversational" /\ Rendered
    /\ selected = <<Bare, Shouted>>
    /\ summary.footnote /\ summary.counts = <<1001, 103>>

\* a text of exactly 1000 characters was rendered without the footnote
ThousandNotFootnoted ==
    /\ variant = "conversational" /\ Rendered
    /\ TextLen(text) = 1000 /\ ~summary.footnote

\* through summarize_text the original text is the stripped one
FootnoteCountsStrippedText ==
    (variant = "conversational" /\ Rendered) =>
        (summary.footnote <=> TextLen(Strip(text)) > 1000)

\* a text of 1001 characters that strips to 1000 was summarized without the footnote
StrippedToThousand ==
    /\ variant = "conversational" /\ Rendered
    /\ TextLen(text) > 1000 /\ ~summary.footnote

\* the length bound of each lookup
LengthBound ==
    CASE assistant = "IntelligentLimbor" -> 800
      [] assistant = "ConversationalAI" -> 500
      [] assistant = "SimpleAI" -> 400
      [] OTHER -> 300

\* the lookup handed its text on
Handed == pc = "done" /\ response # <<>> /\ assistant \in Lookups

(***************************************************************************)
(* C18 (as stated): the text handed on is never longer than the bound of   *)
(* the lookup (300, 400, 500 or 800): an extract within the bound is       *)
(* handed on unchanged, a longer one is cut so that the text with its      *)
(* three dots stays within the bound.                                      *)
(***************************************************************************)
C18_ExtractWithinBound ==
    Handed =>
        /\ response[1].kept + response[1].dots <= LengthBound
        /\ env.wiki.extract <= LengthBound =>
               response[1] = Cut(env.wiki.extract, 0)
        /\ env.wiki.extract > LengthBound =>
               response[1].dots = 3 /\ response[1].kept < env.wiki.extract

\* IntelligentLimbor handed on 803 characters of an extract of 801
C18_Witness ==
    /\ Handed /\ assistant = "IntelligentLimbor"
    /\ env.wiki.extract = 801
    /\ response[1] = Cut(800, 3)

\* the three lookups that cut to the bound less three stay within it
OtherLookupsWithinBound ==
    (Handed /\ assistant # "IntelligentLimbor") =>
        /\ response[1].kept + response[1].dots <= LengthBound
        /\ env.wiki.extract <= LengthBound => response[1] = Cut(env.wiki.extract, 0)
        /\ env.wiki.extract > LengthBound => response[1] = Cut(LengthBound - 3, 3)

\* IntelligentLimbor never hands on more than 803 characters
DetailedContentWithin803 ==
    (Handed /\ assistant = "IntelligentLimbor") => response[1].kept + response[1].dots <= 803

\* sub in query.lower(), for the query of the lookup
Holds(sub) == In(sub, lower(query))

\* the built-in lookup returned
LookedUp == pc = "returned" /\ response # <<>>

\* the substrings the lookup knows topics by
KnownTopics == {"npu", "artificial intelligence", "ai", "python", "machine learning", "ml"}

(***************************************************************************)
(* C19 (as stated): the built-in lookup returns a structured result        *)
(* exactly when the lower-cased query contains one of the known topic      *)
(* substrings, every result has a 'definition' field, and it asks no       *)
(* transport.                                                              *)
(***************************************************************************)
C19_Original ==
    LookedUp =>
        /\ response[1].type = "dict" <=> \E topic \in KnownTopics : Holds(topic)
        /\ response[1].type = "dict" => InKeys("definition", response[1])
        /\ response[1].type # "dict" => response[1] = None
        /\ env = NoEnv

(***************************************************************************)
(* C19: the built-in lookup returns a structured result exactly when the   *)
(* lower-cased query contains "npu", "artificial intelligence", "ai",      *)
(* "machine learning" or "ml", or contains "python" together with          *)
(* "programming" or "language"; every result has a 'definition' field, any *)
(* other query yields None, and no transport is asked.                     *)
(***************************************************************************)
C19_ResultExactlyOnTopicMatch ==
    LookedUp =>
        /\ response[1].type = "dict" <=>
               \/ Holds("npu") \/ Holds("artificial intelligence") \/ Holds("ai")
               \/ Holds("machine learning") \/ Holds("ml")
               \/ Holds("python") /\ (Holds("programming") \/ Holds("language"))
        /\ response[1].type = "dict" => InKeys("definition", response[1])
        /\ response[1].type # "dict" => response[1] = None
        /\ env = NoEnv

\* "Python programming" got the python entry, by its lower-cased words
C19_Witness ==
    /\ LookedUp /\ query = <<"Python", "programming">>
    /\ response[1].type = "dict" /\ response[1].topic = "python"
    /\ response[1].keys[1] = "definition"

\* "python" alone got nothing
PythonAloneNotKnown ==
    /\ LookedUp /\ query = <<"python">> /\ response[1] = None

\* the sentence scored at position i is among the listed points
Selected(i) == \E k \in 1..Len(summary.points) : summary.points[k] = scores[i].sentence

\* a summary was selected from the scored list
Ranked == summary.label = "summary" /\ scores # <<>>

(***************************************************************************)
(* C20: ties are broken by original position, earliest first: if the       *)
(* sentence at position j is selected and a sentence at an earlier         *)
(* position i has the same score, the sentence at i is selected too.       *)
(***************************************************************************)
C20_TiesKeepEarliest ==
    Ranked =>
        \A j \in 1..Len(scores) : \A i \in 1..(j - 1) :
            (Selected(j) /\ scores[i].score = scores[j].score) => Selected(i)

\* two sentences tied at the cut: the earlier one is listed, the later one left out
C20_Witness ==
    /\ Ranked
    /\ \E j \in 1..Len(scores) : \E i \in 1..(j - 1) :
           /\ scores[i].score = scores[j].score
           /\ Selected(i) /\ ~Selected(j)

\* the scoring loop ran over the sentences handed to it
Scored == scores # <<>> /\ Len(scores) = Len(selected) /\ variant \in {"conversational", "simple"}

(***************************************************************************)
(* C21 (as stated): the length contribution is +2 when 50 <= len < 200,    *)
(* +1 when 20 < len < 300 and the +2 band does not apply, 0 otherwise.     *)
(***************************************************************************)
C21_Original ==
    Scored =>
        \A i \in 1..Len(scores) :
            scores[i].length =
                (IF 50 <= selected[i].len /\ selected[i].len < 200 THEN 2
                 ELSE IF 20 < selected[i].len /\ selected[i].len < 300 THEN 1
                 ELSE 0)

(***************************************************************************)
(* C21: in ConversationalAI the length contribution is +2 when             *)
(* 50 < len < 200, +1 when 20 < len < 300 outside the +2 band, 0           *)
(* otherwise, so that a sentence of exactly 50 characters gets +1; in      *)
(* SimpleAI it is +2 when 30 <= len <= 150 and 0 otherwise.  At most one   *)
(* bonus applies per sentence.                                             *)
(***************************************************************************)
C21_LengthBands ==
    Scored =>
        \A i \in 1..Len(scores) :
            LET len == selected[i].len
            IN  /\ scores[i].length \in {0, 1, 2}
                /\ variant = "conversational" =>
                       /\ scores[i].length = 2 <=> (50 < len /\ len < 200)
                       /\ scores[i].length = 1 <=>
                              (20 < len /\ len < 300 /\ ~(50 < len /\ len < 200))
                /\ variant = "simple" =>
                       /\ scores[i].length = 2 <=> (30 <= len /\ len <= 150)
                       /\ scores[i].length # 1

\* ConversationalAI gave a sentence of exactly 50 characters +1
C21_Witness ==
    /\ Scored /\ variant = "conversational"
    /\ \E i \in 1..Len(scores) : selected[i].len = 50 /\ scores[i].length = 1

(***************************************************************************)
(* C22 (as stated): the position contribution of the sentence at index i   *)
(* of n is +3 if i = 0, otherwise +2 if i = n-1, otherwise +1 if           *)
(* i < 0.3*n, otherwise 0.                                                 *)
(***************************************************************************)
C22_Original ==
    Scored =>
        \A k \in 1..Len(scores) :
            LET i == k - 1
                n == Len(selected)
            IN  scores[k].position =
                    (IF i = 0 THEN 3
                     ELSE IF i = n - 1 THEN 2
                     ELSE IF 10 * i < 3 * n THEN 1
                     ELSE 0)

(***************************************************************************)
(* C22: in ConversationalAI the position contribution of the sentence at   *)
(* index i of n is +3 if i = 0, otherwise +2 if i = n-1, otherwise +1 if   *)
(* i < 0.3*n, otherwise 0; in SimpleAI it is +3 if i = 0, otherwise +2 if  *)
(* i = n-1, otherwise 0.  Exactly one case applies to every sentence: the  *)
(* first sentence gets +3 also when it is the last.                        *)
(***************************************************************************)
C22_PositionCases ==
    Scored =>
        \A k \in 1..Len(scores) :
            LET i == k - 1
                n == Len(selected)
                early == variant = "conversational" /\ 10 * i < 3 * n
            IN  /\ i = 0 => scores[k].position = 3
                /\ (i # 0 /\ i = n - 1) => scores[k].position = 2
                /\ (i # 0 /\ i # n - 1 /\ early) => scores[k].position = 1
                /\ (i # 0 /\ i # n - 1 /\ ~early) => scores[k].position = 0

\* ConversationalAI gave the only sentence of a list +3, not the +2 of the last
C22_Witness ==
    /\ Scored /\ variant = "conversational"
    /\ Len(selected) = 1 /\ scores[1].position = 3

\* SimpleAI gave the second of five sentences nothing for its position
SimpleEarlyUnrewarded ==
    /\ Scored /\ variant = "simple"
    /\ Len(selected) = 5 /\ scores[2].position = 0

\* the terms of the variant's list that occur in the words of a sentence, whatever their case
TermsFound(terms, words) ==
    {k \in terms : \E j \in DOMAIN words : k \in KeywordsWithin(LowerSignal(words[j]))}

(***************************************************************************)
(* C23 (as stated): the keyword contribution is the number of distinct     *)
(* keywords of the 13-term set that occur in the sentence as               *)
(* case-insensitive substrings, and the numeric contribution is +1 exactly *)
(* when the sentence contains a digit.                                     *)
(***************************************************************************)
C23_Original ==
    Scored =>
        \A i \in 1..Len(scores) :
            /\ scores[i].keyword = Cardinality(TermsFound(keywords, selected[i].words))
            /\ scores[i].numeric = (IF DigitIn(selected[i].words) THEN 1 ELSE 0)

(***************************************************************************)
(* C23: the keyword contribution is the number of distinct terms of the    *)
(* variant's list that occur in the sentence as case-insensitive           *)
(* substrings, a term that occurs several times counting once: the 13      *)
(* terms of ConversationalAI, the 11 of SimpleAI, which lacks              *)
(* "significant" and "major".  The numeric contribution is +1 exactly when *)
(* the sentence contains a digit.                                          *)
(***************************************************************************)
C23_DistinctKeywordsAndDigit ==
    Scored =>
        \A i \in 1..Len(scores) :
            /\ Cardinality(keywords) = 13 /\ Cardinality(important_words) = 11
            /\ important_words = keywords \ {"significant", "major"}
            /\ scores[i].keyword =
                   Cardinality(TermsFound(IF variant = "simple" THEN important_words ELSE keywords,
                                          selected[i].words))
            /\ scores[i].numeric = (IF DigitIn(selected[i].words) THEN 1 ELSE 0)

\* "Important ... important" counted once, and two numbers gave +1
C23_Witness ==
    /\ Scored /\ variant = "conversational"
    /\ \E i \in 1..Len(scores) :
           /\ selected[i].words = <<"Important", "important">>
           /\ scores[i].keyword = 1 /\ scores[i].numeric = 0
    /\ Len(selected) = 2

\* SimpleAI gave "Significant" nothing
SignificantUnlisted ==
    /\ Scored /\ variant = "simple"
    /\ \E i \in 1..Len(scores) :
           selected[i].words = <<"Significant">> /\ scores[i].keyword = 0

(***************************************************************************)
(* C24: the scoring loop returns one scored entry per input sentence, in   *)
(* input order, and every score is a non-negative integer, the sum of the  *)
(* position, length, keyword and numeric contributions.                    *)
(***************************************************************************)
C24_OneEntryPerSentenceSumOfSignals ==
    (scores # <<>> /\ variant \in {"conversational", "simple"}) =>
        /\ Len(scores) = Len(selected)
        /\ \A i \in 1..Len(scores) :
               /\ scores[i].sentence = selected[i]
               /\ scores[i].score \in Nat
               /\ scores[i].score = scores[i].position + scores[i].length
                                    + scores[i].keyword + scores[i].numeric

\* a first sentence of 51 characters with a keyword and a number scored 3 + 2 + 1 + 1
C24_Witness ==
    /\ Scored /\ variant = "conversational" /\ Len(selected) = 3
    /\ selected[1].len = 51 /\ selected[1].words = <<"Important", "2024">>
    /\ scores[1].score = 7
    /\ scores[2].score = 1 /\ scores[3].score = 3

\* the split returned its list
Segmented == summary.label = "split"

\* the threshold of the variant called
MinLen == IF variant = "simple" THEN 15 ELSE 10

(***************************************************************************)
(* C25: the split emits the pieces of the text between runs of '.', '!'    *)
(* and '?' in source order, with strictly increasing positions: every      *)
(* emitted sentence is the stripped piece, holds no delimiter and is       *)
(* longer than the threshold (10, or 15 in SimpleAI); every piece at or    *)
(* below the threshold is dropped, every longer one is emitted, and a text *)
(* with no qualifying piece yields the empty list.                         *)
(***************************************************************************)
C25_SegmentsInOrderAboveThreshold ==
    Segmented =>
        LET out == summary.points
            ps == text.pieces
        IN  /\ \A k \in 1..Len(out) :
                   /\ out[k].piece \in 1..Len(ps)
                   /\ out[k].len = ps[out[k].piece].len
                   /\ out[k].len > MinLen
                   /\ out[k].stop = ""
            /\ \A k \in 1..Len(out) : \A l \in (k + 1)..Len(out) : out[k].piece < out[l].piece
            /\ \A i \in 1..Len(ps) :
                   (ps[i].len > MinLen) <=> (\E k \in 1..Len(out) : out[k].piece = i)
            /\ (\A i \in 1..Len(ps) : ps[i].len <= MinLen) => out = <<>>

\* pieces of 10, 11 and 40 characters: ConversationalAI dropped the first, kept the others
C25_Witness ==
    /\ Segmented /\ variant = "conversational"
    /\ text.pieces = <<Ten, Eleven, Plain>>
    /\ Len(summary.points) = 2
    /\ summary.points[1].piece = 2 /\ summary.points[2].piece = 3

\* a text of pieces at or below the threshold gave SimpleAI the empty list
NothingQualifies ==
    /\ Segmented /\ variant = "simple"
    /\ text.pieces = <<Fifteen, Pause, Eleven>> /\ summary.points = <<>>

\* a turn of PoweredAI returned, for an input that is no special command
PoweredAnswered ==
    bot = "PoweredAI" /\ reply # Pending /\ user_input \notin {"help", "setup", "status"}

\* the fixed order of the chain
ChainOrder == <<"groq", "gemini", "openai">>

\* the provider is enabled and its call fails
ApiFails(a) == env[a].enabled /\ env[a].outcome # "answer"

\* every provider before the k-th of the chain is disabled or fails
AllBeforeSkippedOrFailed(k) ==
    \A j \in 1..(k - 1) : ~env[ChainOrder[j]].enabled \/ ApiFails(ChainOrder[j])

BasicHandlers == {"basic_greeting", "basic_summarize_usage", "basic_programming", "search_error"}

(***************************************************************************)
(* C26: the chain walks groq, gemini, openai in this order and skips the   *)
(* disabled ones: the reply is the answer of the first enabled provider    *)
(* whose call succeeds, a failing provider only moves the chain on,        *)
(* basic_response answers exactly when every enabled provider has failed,  *)
(* and no provider failure is raised to the caller.                        *)
(***************************************************************************)
C26_FirstEnabledProviderThatSucceeds ==
    PoweredAnswered =>
        /\ reply.type = "reply"
        /\ \A k \in 1..3 :
               /\ reply.handler = ChainOrder[k] <=>
                      /\ env[ChainOrder[k]].enabled /\ ~ApiFails(ChainOrder[k])
                      /\ AllBeforeSkippedOrFailed(k)
               /\ (\E c \in 1..Len(consulted) : consulted[c] = ChainOrder[k]) <=>
                      (env[ChainOrder[k]].enabled /\ AllBeforeSkippedOrFailed(k))
        /\ reply.handler \in BasicHandlers <=> \A a \in ApiNames : env[a].enabled => ApiFails(a)
        /\ \A c \in 1..Len(consulted) : \A d \in (c + 1)..Len(consulted) :
               \E k \in 1..3 : \E l \in (k + 1)..3 :
                   consulted[c] = ChainOrder[k] /\ consulted[d] = ChainOrder[l]

\* groq timed out, gemini has no key, openai answered
C26_Witness ==
    /\ PoweredAnswered
    /\ env["groq"].outcome = "timeout" /\ ~env["gemini"].enabled
    /\ env["openai"].outcome = "answer"
    /\ consulted = <<"groq", "openai">>
    /\ reply.handler = "openai"

\* all three providers failed and basic_response answered
AllFailedBasicAnswered ==
    /\ PoweredAnswered /\ user_input = "hello"
    /\ \A a \in ApiNames : ApiFails(a)
    /\ consulted = <<"groq", "gemini", "openai">>
    /\ reply.handler = "basic_greeting"

\* PoweredAI.chat returns with at most 20 entries, the last one the reply
PoweredHistoryAtMostTwenty ==
    (bot = "PoweredAI" /\ reply # Pending) =>
        /\ Len(conversation_history) <= 20
        /\ conversation_history[Len(conversation_history)] =
               [role |-> "assistant", content |-> reply]

\* PoweredAI.chat cut its history to 20 entries
PoweredHistoryTrimmed ==
    /\ bot = "PoweredAI" /\ Len(conversation_history) = 20
    /\ conversation_history[1].role = "user"

\* a call of ConversationalAI.get_response returned
GotResponse == bot = "ConversationalAI" /\ reply # Pending

(***************************************************************************)
(* C27 (as stated): when a call of ConversationalAI.get_response returns,  *)
(* conversation_history holds at most 20 entries and its last entry is the *)
(* assistant reply to the most recent user input.                          *)
(***************************************************************************)
C27_HistoryAtMostTwenty ==
    GotResponse =>
        /\ Len(conversation_history) <= 20
        /\ conversation_history[Len(conversation_history)] = [who |-> "Limbor", said |-> reply]

\* the eleventh call returned with 21 entries: twenty kept, then the reply
C27_Witness ==
    /\ GotResponse
    /\ Len(conversation_history) = 21
    /\ conversation_history[1].who = "Limbor"
    /\ conversation_history[21] = [who |-> "Limbor", said |-> reply]

\* ConversationalAI never holds more than 21 entries, the last two being the
\* latest input and its reply
HistoryAtMostTwentyOne ==
    GotResponse =>
        /\ Len(conversation_history) <= 21
        /\ conversation_history[Len(conversation_history)] = [who |-> "Limbor", said |-> reply]
        /\ conversation_history[Len(conversation_history) - 1] = [who |-> "User", said |-> user_input]

\* the threads still running voice_loop
AliveLoops == {t \in DOMAIN voice_threads : voice_threads[t] # "ended"}

\* the threads inside the loop, taking data from audio_queue
ConsumingLoops == {t \in DOMAIN voice_threads : voice_threads[t] = "consuming"}

(***************************************************************************)
(* C28 (as stated): under every interleaving of toggle_voice calls with    *)
(* the running voice loop, at most one voice_loop thread is alive and      *)
(* consuming audio_queue at any time.                                      *)
(***************************************************************************)
C28_AtMostOneVoiceLoop ==
    toggling # <<>> => Cardinality(AliveLoops) <= 1 /\ Cardinality(ConsumingLoops) <= 1

\* voice was switched off and on again by the menu alone while the first loop
\* waited on the queue: two loops take data from it
C28_Witness ==
    /\ toggling # <<>>
    /\ toggling["hotkey"] = Resting /\ toggling["menu"] = [Resting EXCEPT !.done = 2]
    /\ is_active /\ is_listening
    /\ voice_threads = <<"consuming", "consuming">>

\* handle_summarization reached its summary step
Summarized == variant = "simple" /\ reply.type = "summarized"

(***************************************************************************)
(* C29 (as stated): for every text that reaches the summary step of        *)
(* SimpleAI.handle_summarization the reported compression N satisfies      *)
(* 0 <= N <= 100: the returned summary is never longer than the text.      *)
(***************************************************************************)
C29_CompressionWithinPercent ==
    Summarized => /\ 0 <= reply.compression /\ reply.compression <= 100
                  /\ reply.length <= reply.original

\* a single sentence of 60 characters and its stop: 61 characters handed back as 90,
\* reported as -47% shorter
C29_Witness ==
    /\ Summarized
    /\ text.pieces = <<Rich>>
    /\ reply.summary.label = "brief"
    /\ reply.original = 61 /\ reply.length = 90 /\ reply.compression = -47

\* what the report does satisfy: N is at most 100, and the length it states is that of
\* the summary returned
CompressionAtMostHundred ==
    Summarized => /\ reply.compression <= 100
                  /\ reply.length = SimpleSummaryLen(summary)
                  /\ reply.original = TextLen(text) /\ reply.original >= 50

\* process_command returned for a command
Processed == bot = "LimborAI" /\ reply # Pending

\* the reply is one of the two search_web messages that announce the search page
Announces ==
    reply.message \in {"couldn't get a clear answer. Let me open", "let me open Google for"}

\* open_web_search was called for the query the reply is about
Opened ==
    \E i \in DOMAIN consulted :
        consulted[i] = [call |-> "open_web_search", of |-> reply.of, form |-> reply.form]

(***************************************************************************)
(* C30 (as stated): whenever the reply process_command returns is a        *)
(* search_web message announcing that the search page will be opened,      *)
(* open_web_search has been called for that query before the reply is      *)
(* returned, on the explicit-search path and on the default path.          *)
(***************************************************************************)
C30_AnnouncedSearchPageOpened == (Processed /\ Announces) => Opened

\* "what is rust" with the request failing: the reply announces Google, and the calls
\* made are speak and search_web alone
C30_Witness ==
    /\ Processed
    /\ user_input.name = "what is rust" /\ env.page = "raises"
    /\ reply.message = "let me open Google for" /\ reply.form = "terms"
    /\ consulted = <<[call |-> "speak", of |-> "what is rust", form |-> ""],
                     [call |-> "search_web", of |-> "what is rust", form |-> "terms"]>>

\* the default path opens the page after every search, and the explicit path after every
\* reply that holds the words "couldn't get a clear answer"
DefaultPathAlwaysOpens ==
    Processed =>
        /\ (reply.form = "command") => Opened
        /\ (reply.form = "terms") => (Opened <=> reply.says)
        /\ (reply.form = "") => consulted = <<>>

====
